---- MODULE Spec2Model ----
(***************************************************************************)
(* Model of the BerllogApp client: image-URL resolution and the            *)
(* retry-cursor image hook, and the fetch / refresh cycle of the data      *)
(* screens.                                                                *)
(*                                                                         *)
(* Strings are sequences of tokens.  A token is a piece of text that the   *)
(* code never looks inside: "/" is the slash, every other token is a run   *)
(* of characters without a slash.  The string a sequence stands for is the *)
(* concatenation of its tokens, so startsWith, includes, replace and split *)
(* on the text are prefix, infix, replace and split on the sequence.       *)
(***************************************************************************)
EXTENDS Integers, Sequences, FiniteSets, TLC

\* ------------------------------------------------------------------ bounds
\* segments of a generated image reference (pure-function specification)
MaxSegs == 3
\* leading slashes of a generated image reference
MaxLead == 2
\* segments of an image reference handed to the image hook
MaxHookSegs == 2
\* characters of a display name
MaxNameLen == 1
\* the counter of consecutive failures saturates here
MaxFailures == 5
\* user gestures (pull-to-refresh, retry, tab, sort) on a data screen
MaxGestures == 2

\* --------------------------------------------------------------- constants
\* API_CONFIG.BASE_URL as tokens: scheme, "//", host
BASE_URL == <<"http:", "/", "/", "host">>

\* API_CONFIG.STORAGE_PATHS
STORAGE_PATHS == << <<"/", "storage", "/">>, <<"/">>, <<"/", "public", "/", "storage", "/">> >>

\* the value of a null / undefined / empty image reference or source
NullRef == <<"<null>">>

\* ---------------------------------------------------------- string helpers
\* String.prototype.startsWith
StartsWith(s, p) == Len(s) >= Len(p) /\ SubSeq(s, 1, Len(p)) = p

\* String.prototype.includes
Includes(s, p) == \E i \in 1..(Len(s) - Len(p) + 1) : SubSeq(s, i, i + Len(p) - 1) = p

\* index of the first occurrence of p in s, 0 when there is none
IndexOf(s, p) ==
  IF Includes(s, p)
  THEN CHOOSE i \in 1..(Len(s) - Len(p) + 1) :
         /\ SubSeq(s, i, i + Len(p) - 1) = p
         /\ \A j \in 1..(i - 1) : SubSeq(s, j, j + Len(p) - 1) # p
  ELSE 0

\* String.prototype.replace(p, '') with a string pattern: first occurrence only
RemoveFirst(s, p) ==
  LET i == IndexOf(s, p)
  IN  IF i = 0 THEN s ELSE SubSeq(s, 1, i - 1) \o SubSeq(s, i + Len(p), Len(s))

RECURSIVE StripLeadingSlashes(_)
\* String(imagePath).replace(/^\/+/g, '')
StripLeadingSlashes(s) ==
  IF s # <<>> /\ Head(s) = "/" THEN StripLeadingSlashes(Tail(s)) ELSE s

\* s.split('/')[0]
FirstSegment(s) ==
  LET i == IndexOf(s, <<"/">>)
  IN  IF i = 0 THEN s ELSE SubSeq(s, 1, i - 1)

RECURSIVE LastSegment(_)
\* s.split('/').pop()
LastSegment(s) ==
  IF Includes(s, <<"/">>)
  THEN LastSegment(SubSeq(s, IndexOf(s, <<"/">>) + 1, Len(s)))
  ELSE s

\* lower-casing of a scheme token (the i flag of the regular expression)
LowerScheme(t) ==
  CASE t = "HTTP:" -> "http:"
    [] t = "HTTPS:" -> "https:"
    [] OTHER -> t

\* the same test without the i flag
IsAbsoluteUrlCaseSensitive(s) ==
  /\ Len(s) >= 3
  /\ s[1] \in {"http:", "https:"}
  /\ s[2] = "/"
  /\ s[3] = "/"

\* /^https?:\/\//i.test(imagePath)
IsAbsoluteUrl(s) ==
  /\ Len(s) >= 3
  /\ LowerScheme(s[1]) \in {"http:", "https:"}
  /\ s[2] = "/"
  /\ s[3] = "/"

\* !imagePath
IsFalsy(s) == s = <<>> \/ s = NullRef

\* ------------------------------------------------------------- getImageUrl
\* RankingScreen, UserDetailsScreen and PollsScreen (identical text)
getImageUrlRanking(imagePath, isUserAvatar) ==
  IF IsFalsy(imagePath) THEN NullRef
  ELSE IF IsAbsoluteUrl(imagePath) THEN imagePath
  ELSE LET cleaned == StripLeadingSlashes(imagePath)
       IN  IF isUserAvatar \/ StartsWith(cleaned, <<"avatar", "/">>)
           THEN IF ~Includes(cleaned, <<"/">>)
                THEN BASE_URL \o <<"/", "api", "/", "users", "/">> \o cleaned \o <<"/", "avatar">>
                ELSE BASE_URL \o <<"/", "storage", "/">> \o cleaned
           ELSE BASE_URL \o <<"/", "storage", "/">> \o cleaned

\* PostDetailsScreen
getImageUrlPostDetails(imagePath, isUserAvatar) ==
  IF IsFalsy(imagePath) THEN NullRef
  ELSE IF IsAbsoluteUrl(imagePath) THEN imagePath
  ELSE LET cleaned == StripLeadingSlashes(imagePath)
       IN  IF isUserAvatar \/ StartsWith(cleaned, <<"avatar", "/">>)
           THEN IF ~Includes(cleaned, <<"/">>)
                THEN BASE_URL \o <<"/", "api", "/", "users", "/">> \o cleaned \o <<"/", "avatar">>
                ELSE BASE_URL \o <<"/", "storage", "/">> \o cleaned
           ELSE IF StartsWith(cleaned, <<"storage", "/", "garbage_post_images", "/">>)
                THEN BASE_URL \o <<"/">> \o cleaned
           ELSE IF StartsWith(cleaned, <<"garbage_post_images", "/">>)
                THEN BASE_URL \o <<"/", "storage", "/">> \o cleaned
           ELSE BASE_URL \o <<"/", "storage", "/">> \o cleaned

\* HomeScreen
getImageUrlHome(imagePath) ==
  IF IsFalsy(imagePath) THEN NullRef
  ELSE IF IsAbsoluteUrl(imagePath) THEN imagePath
  ELSE LET cleaned == StripLeadingSlashes(imagePath)
       IN  IF StartsWith(cleaned, <<"storage", "/", "garbage_post_images", "/">>)
           THEN BASE_URL \o <<"/">> \o cleaned
           ELSE IF StartsWith(cleaned, <<"garbage_post_images", "/">>)
           THEN BASE_URL \o <<"/", "storage", "/">> \o cleaned
           ELSE IF StartsWith(cleaned, <<"avatar", "/">>)
           THEN BASE_URL \o <<"/", "storage", "/">> \o cleaned
           ELSE IF ~Includes(cleaned, <<"/">>)
           THEN BASE_URL \o <<"/", "storage", "/", "avatar", "/">> \o cleaned
           ELSE BASE_URL \o <<"/">> \o cleaned

\* MapScreen
getImageUrlMap(imagePath) ==
  IF IsFalsy(imagePath) THEN NullRef
  ELSE IF IsAbsoluteUrl(imagePath) THEN imagePath
  ELSE LET cleaned == StripLeadingSlashes(imagePath)
       IN  IF StartsWith(cleaned, <<"garbage_post_images", "/">>)
           THEN BASE_URL \o <<"/", "storage", "/">> \o cleaned
           ELSE IF StartsWith(cleaned, <<"storage", "/">>)
           THEN BASE_URL \o <<"/">> \o cleaned
           ELSE IF StartsWith(cleaned, <<"avatar", "/">>)
           THEN BASE_URL \o <<"/", "storage", "/">> \o cleaned
           ELSE BASE_URL \o <<"/", "storage", "/">> \o cleaned

\* String(imagePath).replace(/^\/+|^storage\//, ''): one match, at the start
DrawerClean(s) ==
  IF s # <<>> /\ Head(s) = "/" THEN StripLeadingSlashes(s)
  ELSE IF StartsWith(s, <<"storage", "/">>) THEN SubSeq(s, 3, Len(s))
  ELSE s

\* DrawerContent
getImageUrlDrawer(imagePath) ==
  IF IsFalsy(imagePath) THEN NullRef
  ELSE IF IsAbsoluteUrl(imagePath) THEN imagePath
  ELSE BASE_URL \o <<"/", "storage", "/">> \o DrawerClean(imagePath)

\* MapScreen.jsx, module level
processImageUrl(url) ==
  IF IsFalsy(url) THEN NullRef
  ELSE IF IsAbsoluteUrl(url) THEN url
  ELSE LET path == IF StartsWith(url, <<"/">>) THEN url ELSE <<"/">> \o url
       IN  BASE_URL \o path

\* ------------------------------------------------------- generated inputs
\* path segments the code distinguishes, and a file name
Segments == {"storage", "avatar", "garbage_post_images", "a.png"}
HookSegments == {"avatar", "a.png"}
Schemes == {"http:", "HTTPS:"}

RECURSIVE Bodies(_, _)
\* seg, seg/seg, ... with at most n segments
Bodies(segs, n) ==
  IF n = 0 THEN {}
  ELSE LET shorter == Bodies(segs, n - 1)
       IN  {<<x>> : x \in segs} \cup shorter
             \cup {b \o <<"/", x>> : b \in shorter, x \in segs}

RECURSIVE Slashes(_)
Slashes(n) == IF n = 0 THEN <<>> ELSE <<"/">> \o Slashes(n - 1)

\* relative references: leading slashes, a body, an optional trailing slash
RelativeRefs(segs, n, lead) ==
  {Slashes(k) \o b \o t : k \in 0..lead, b \in Bodies(segs, n), t \in {<<>>, <<"/">>}}

\* absolute references: scheme://host/body
AbsoluteRefs(segs, n) ==
  {<<sc, "/", "/", "host", "/">> \o b \o t :
     sc \in Schemes, b \in Bodies(segs, n), t \in {<<>>, <<"/">>}}

\* the image references of the pure-function specification
ImageRefs == {<<>>, NullRef} \cup RelativeRefs(Segments, MaxSegs, MaxLead)
               \cup AbsoluteRefs(Segments, MaxSegs)

\* the image references handed to the image hook: relative ones of every
\* length, and one-segment ones with a leading slash or already absolute
HookRefs == {<<>>} \cup RelativeRefs(HookSegments, MaxHookSegs, 0)
              \cup {<<"/">> \o b : b \in Bodies(HookSegments, 1)}
              \cup {BASE_URL \o <<"/">> \o b : b \in Bodies(HookSegments, 1)}

RECURSIVE SeqsUpTo(_, _)
SeqsUpTo(chars, n) ==
  IF n = 0 THEN {<<>>}
  ELSE LET shorter == SeqsUpTo(chars, n - 1)
       IN  shorter \cup {<<c>> \o w : c \in chars, w \in shorter}

\* display names; the empty sequence is an absent (undefined, null, '') name
NameChars == {"a", "e'"}
Names == SeqsUpTo(NameChars, MaxNameLen)

\* ---------------------------------------------------------------- state
VARIABLES
  \* pure-function specification
  uImagePath,     \* the image reference handed to getImageUrl
  uIsUserAvatar,  \* the isUserAvatar flag
  uCopy,          \* the copy of getImageUrl that was applied, "none" before
  uResult,        \* what it returned
  \* image hook
  hCopy,            \* the copy of useImageWithFallback
  initialImagePath, \* prop: the image reference
  userName,         \* prop: the display name
  isUserAvatar,     \* prop: the avatar flag
  imageSource,      \* state: the uri of the image source, NullRef for none
  imageError,       \* state
  retryCount,       \* ref: the retry cursor
  cbUserName,       \* the display name closed over by handleImageError
  consecFails,      \* history: failures since the last other event
  tried,            \* history: candidates tried since the reference was set
  lastOp,           \* history: the last hook operation
  \* data screens
  sScreen,        \* the screen
  loading,        \* state (postsLoading in MapScreen)
  refreshing,     \* state
  error,          \* state: the error string (postsError in MapScreen)
  data,           \* state: what the last successful response left
  inflight,       \* the HTTP requests that have not completed
  effectPending,  \* the fetch effect of the last render has not run yet
  activeIndex,    \* RankingScreen: the selected tab
  sortBy,         \* EventsScreen: the sort option
  token,          \* PostDetailsScreen: the token read from storage
  tokenLoaded,    \* PostDetailsScreen: the storage read has completed
  fetchCount,     \* history: GET requests started so far
  gestures,       \* history: user gestures so far
  gesture,        \* history: the last user gesture
  gestureFetches, \* history: requests started by it and by what followed
  lastEvent,      \* history: the last request event
  \* local key-value storage (AsyncStorage)
  storage,        \* key -> stored string, "null" for no entry
  writtenKeys,    \* history: the keys setItem was called with
  \* ThemeProvider
  themeMode,        \* state: 'light', 'dark' or 'system'
  deviceTheme,      \* useColorScheme(): 'light', 'dark' or null
  isDarkMode,       \* the context value of the last render
  themeLoadPending, \* the getItem of the load effect has not resolved
  savedTheme,       \* what that getItem read
  themeSavePending, \* the save effect of the last render has not run yet
  toggles,          \* history: toggleTheme calls so far
  starts,           \* history: app starts after the first
  lastSelected,     \* history: the mode the last toggleTheme selected
  streak,           \* history: toggleTheme calls in a row and the mode before
  restored,         \* history: the load effect was the last to act
  \* AuthProvider, AppNavigator, token readers, PollsScreen votes
  authToken,        \* state: token
  user,             \* state
  points,           \* state
  notifications,    \* state
  unreadCount,      \* state
  authLoading,      \* state: loading
  calls,            \* the auth operations that have not returned
  opCount,          \* history: operations started by the user so far
  lastResult,       \* history: what the last returned operation returned
  display,          \* what AppNavigator rendered last: "main" or "auth"
  homeToken,        \* HomeScreen / PostDetailsScreen: token read from storage
  homeTokenLoaded,  \* that read has completed
  userVotes,        \* PollsScreen state: pollId -> vote record
  votesLoaded,      \* PollsScreen: the read of the saved votes has completed
  voteLog,          \* history: handleVote calls, the poll of the last one, requests sent
  \* Posts (HomeScreen) and PostDetailsScreen: favorites and reactions
  pScreen,             \* the component: "Home" or "PostDetails"
  pToken,              \* state: token, read from storage
  pTokenLoaded,        \* the storage read has completed
  favoritedByPost,     \* state: postId -> favorited (isFavorited in PostDetailsScreen)
  favoriting,          \* state: postId -> a toggle is in progress
  reactionTypeByPost,  \* state: postId -> 1, 2, or 0 for no entry
  reactionFlashByPost, \* state: postId -> a flash message is set
  flashTimers,         \* postId -> setTimeout callbacks that have not run
  rendered,            \* the state the handlers of the last render closed over
  renderPending,       \* a state update has not been rendered yet
  favCalls,            \* the toggleFavorite calls awaiting their request
  favoritesPending,    \* a GET /api/users/favorite-posts is in flight
  pTaps,               \* history: handler calls so far
  lastCall,            \* history: the last handler call and what it sent
  flagBase,            \* history: postId -> flag when the favorites were set last
  flips                \* history: postId -> successful toggles completed since

urlVars == <<uImagePath, uIsUserAvatar, uCopy, uResult>>
hookVars == <<hCopy, initialImagePath, userName, isUserAvatar, imageSource,
              imageError, retryCount, cbUserName, consecFails, tried, lastOp>>
fetchVars == <<sScreen, loading, refreshing, error, data, inflight, effectPending,
               activeIndex, sortBy, token, tokenLoaded, fetchCount, gestures,
               gesture, gestureFetches, lastEvent>>
storeVars == <<storage, writtenKeys>>
themeVars == <<themeMode, deviceTheme, isDarkMode, themeLoadPending, savedTheme,
               themeSavePending, toggles, starts, lastSelected, streak, restored>>
authVars == <<authToken, user, points, notifications, unreadCount, authLoading,
              calls, opCount, lastResult, display, homeToken, homeTokenLoaded, userVotes,
              votesLoaded, voteLog>>
postVars == <<pScreen, pToken, pTokenLoaded, favoritedByPost, favoriting,
              reactionTypeByPost, reactionFlashByPost, flashTimers, rendered,
              renderPending, favCalls, favoritesPending, pTaps, lastCall,
              flagBase, flips>>
appVars == <<storeVars, themeVars, authVars, postVars>>
vars == <<urlVars, hookVars, fetchVars, appVars>>

\* ------------------------------------------- specification of getImageUrl
UrlIdle ==
  /\ uImagePath = <<>>
  /\ uIsUserAvatar = FALSE
  /\ uCopy = "none"
  /\ uResult = NullRef

HookIdle ==
  /\ hCopy = "none"
  /\ initialImagePath = <<>>
  /\ userName = <<>>
  /\ isUserAvatar = FALSE
  /\ imageSource = NullRef
  /\ imageError = FALSE
  /\ retryCount = 0
  /\ cbUserName = <<>>
  /\ consecFails = 0
  /\ tried = {}
  /\ lastOp = "none"

FetchIdle ==
  /\ sScreen = "none"
  /\ loading = FALSE
  /\ refreshing = FALSE
  /\ error = ""
  /\ data = [arg |-> "none", payload |-> "none"]
  /\ inflight = {}
  /\ effectPending = FALSE
  /\ activeIndex = 0
  /\ sortBy = "recent"
  /\ token = "null"
  /\ tokenLoaded = FALSE
  /\ fetchCount = 0
  /\ gestures = 0
  /\ gesture = "none"
  /\ gestureFetches = 0
  /\ lastEvent = "none"

\* the keys of AsyncStorage the source names
StorageKeys == {"theme_preference", "auth_token", "user_poll_votes"}
EmptyStorage == [k \in StorageKeys |-> "null"]
NoStreak == [from |-> "none", n |-> 0]
NoResult == [kind |-> "none", success |-> FALSE, error |-> "", lastLoadRejected |-> FALSE]
\* the polls on the screen and the options of each
PollIds == {1, 2}
OptionIds == {1, 2}
\* an entry of userVotes; 0 and "" stand for a missing field
NoVote == [optionId |-> 0, voteId |-> 0, message |-> "", type |-> ""]
NoVotes == [p \in PollIds |-> NoVote]
NoVoteLog == [calls |-> 0, poll |-> 0, requests |-> 0]

StoreIdle ==
  /\ storage = EmptyStorage
  /\ writtenKeys = {}

ThemeIdle ==
  /\ themeMode = "system"
  /\ deviceTheme = "light"
  /\ isDarkMode = FALSE
  /\ themeLoadPending = FALSE
  /\ savedTheme = "null"
  /\ themeSavePending = FALSE
  /\ toggles = 0
  /\ starts = 0
  /\ lastSelected = "none"
  /\ streak = NoStreak
  /\ restored = "no"

AuthIdle ==
  /\ authToken = "null"
  /\ user = "null"
  /\ points = 0
  /\ notifications = <<>>
  /\ unreadCount = 0
  /\ authLoading = FALSE
  /\ calls = {}
  /\ opCount = 0
  /\ lastResult = NoResult
  /\ display = "none"
  /\ homeToken = "null"
  /\ homeTokenLoaded = FALSE
  /\ userVotes = NoVotes
  /\ votesLoaded = FALSE
  /\ voteLog = NoVoteLog

\* the post ids on the screen
PostIds == {1, 2}
NoFlags == [p \in PostIds |-> FALSE]
NoReactions == [p \in PostIds |-> 0]
NoTimers == [p \in PostIds |-> 0]
NoFlips == [p \in PostIds |-> 0]
NoCall == [op |-> "none", post |-> 0, sent |-> "none", reaction |-> 0, before |-> 0]

PostsIdle ==
  /\ pScreen = "none"
  /\ pToken = "null"
  /\ pTokenLoaded = FALSE
  /\ favoritedByPost = NoFlags
  /\ favoriting = NoFlags
  /\ reactionTypeByPost = NoReactions
  /\ reactionFlashByPost = NoFlags
  /\ flashTimers = NoTimers
  /\ rendered = [favoriting |-> NoFlags, favoritedByPost |-> NoFlags,
                 reactionTypeByPost |-> NoReactions]
  /\ renderPending = FALSE
  /\ favCalls = {}
  /\ favoritesPending = FALSE
  /\ pTaps = 0
  /\ lastCall = NoCall
  /\ flagBase = NoFlags
  /\ flips = NoFlips

AppIdle == StoreIdle /\ ThemeIdle /\ AuthIdle /\ PostsIdle

InitUrl ==
  /\ uImagePath \in ImageRefs
  /\ uIsUserAvatar \in BOOLEAN
  /\ uCopy = "none"
  /\ uResult = NullRef
  /\ HookIdle
  /\ FetchIdle
  /\ AppIdle

CallRanking ==
  /\ uCopy = "none"
  /\ uCopy' = "Ranking"
  /\ uResult' = getImageUrlRanking(uImagePath, uIsUserAvatar)
  /\ UNCHANGED <<uImagePath, uIsUserAvatar, hookVars, fetchVars, appVars>>

CallPostDetails ==
  /\ uCopy = "none"
  /\ uCopy' = "PostDetails"
  /\ uResult' = getImageUrlPostDetails(uImagePath, uIsUserAvatar)
  /\ UNCHANGED <<uImagePath, uIsUserAvatar, hookVars, fetchVars, appVars>>

CallHome ==
  /\ uCopy = "none"
  /\ uCopy' = "Home"
  /\ uResult' = getImageUrlHome(uImagePath)
  /\ UNCHANGED <<uImagePath, uIsUserAvatar, hookVars, fetchVars, appVars>>

CallMap ==
  /\ uCopy = "none"
  /\ uCopy' = "Map"
  /\ uResult' = getImageUrlMap(uImagePath)
  /\ UNCHANGED <<uImagePath, uIsUserAvatar, hookVars, fetchVars, appVars>>

CallDrawer ==
  /\ uCopy = "none"
  /\ uCopy' = "Drawer"
  /\ uResult' = getImageUrlDrawer(uImagePath)
  /\ UNCHANGED <<uImagePath, uIsUserAvatar, hookVars, fetchVars, appVars>>

CallProcessImageUrl ==
  /\ uCopy = "none"
  /\ uCopy' = "processImageUrl"
  /\ uResult' = processImageUrl(uImagePath)
  /\ UNCHANGED <<uImagePath, uIsUserAvatar, hookVars, fetchVars, appVars>>

NextUrl ==
  \/ CallRanking
  \/ CallPostDetails
  \/ CallHome
  \/ CallMap
  \/ CallDrawer
  \/ CallProcessImageUrl

SpecUrl == InitUrl /\ [][NextUrl]_vars

\* C4: every copy of getImageUrl, and processImageUrl, returns a reference
\* that starts with http:// or https:// (in any letter case) unchanged,
\* whatever the flag, and returns null for an empty or missing reference.
C4_AbsoluteUnchanged ==
  uCopy # "none" =>
    /\ (uImagePath = <<>> \/ uImagePath = NullRef) => uResult = NullRef
    /\ (/\ Len(uImagePath) >= 3
        /\ uImagePath[1] \in {"http:", "https:", "HTTP:", "HTTPS:"}
        /\ uImagePath[2] = "/"
        /\ uImagePath[3] = "/")
         => uResult = uImagePath

\* an upper-case absolute reference went through a copy that takes the flag
C4_Witness ==
  /\ uCopy = "Ranking"
  /\ uIsUserAvatar
  /\ uImagePath = <<"HTTPS:", "/", "/", "host", "/", "avatar", "/", "a.png">>
  /\ uResult = uImagePath

\* the relative part of C5: the reference without its leading slashes
C5_Cleaned == StripLeadingSlashes(uImagePath)

\* C5 (as claimed): for a relative reference every copy of getImageUrl
\* resolves a path starting with garbage_post_images/ or avatar/ to
\* BASE_URL/storage/<path> and a path starting with storage/ to
\* BASE_URL/<path>, and no resolved URL has the segment storage/storage/
\* unless the reference itself has it.
C5_SegmentTemplates ==
  (uCopy \in {"Ranking", "PostDetails", "Home", "Map", "Drawer"}
     /\ ~IsFalsy(uImagePath) /\ ~IsAbsoluteUrl(uImagePath)) =>
    /\ (StartsWith(C5_Cleaned, <<"garbage_post_images", "/">>)
          \/ StartsWith(C5_Cleaned, <<"avatar", "/">>))
         => uResult = BASE_URL \o <<"/", "storage", "/">> \o C5_Cleaned
    /\ StartsWith(C5_Cleaned, <<"storage", "/">>)
         => uResult = BASE_URL \o <<"/">> \o C5_Cleaned
    /\ Includes(uResult, <<"storage", "/", "storage", "/">>)
         => Includes(uImagePath, <<"storage", "/", "storage", "/">>)

\* ------------------------------------------------------ useImageWithFallback
\* String.prototype.toUpperCase on one character
ToUpperCase(c) ==
  CASE c = "a" -> "A"
    [] c = "e'" -> "E'"
    [] OTHER -> c

\* encodeURIComponent on one character: the accented letters are escaped
encodeURIComponent(c) ==
  CASE c = "e'" -> "%C3%A9"
    [] c = "E'" -> "%C3%89"
    [] OTHER -> c

\* what a server reads from a query parameter
decodeURIComponent(c) ==
  CASE c = "%C3%A9" -> "e'"
    [] c = "%C3%89" -> "E'"
    [] OTHER -> c

\* API_CONFIG.STORAGE_PATHS.length - 1: a cursor that stops one short
maxRetriesShort == Len(STORAGE_PATHS) - 1

\* const maxRetries = API_CONFIG.STORAGE_PATHS.length
maxRetries == Len(STORAGE_PATHS)

\* getInitial of RankingScreen, UserDetailsScreen, PostDetailsScreen, DrawerContent
getInitial(name) == IF name = <<>> THEN "U" ELSE ToUpperCase(Head(name))

\* HomeScreen: post.user?.name?.charAt(0) || 'U', then getInitial = userInitial || 'U'
getInitialHome(name) == IF name = <<>> THEN "U" ELSE Head(name)

\* the ui-avatars URL; the ninth token is the value of the name parameter
FallbackUrl(param) ==
  <<"https:", "/", "/", "ui-avatars.com", "/", "api", "/", "?name=", param,
    "&background=random&color=fff&size=100">>

\* useFallbackAvatar builds the URL from the closed-over display name
useFallbackAvatarUrl(copy, name) ==
  CASE copy = "Home" -> FallbackUrl(getInitialHome(name))
    [] copy = "Drawer" -> FallbackUrl(getInitial(name))
    [] OTHER -> FallbackUrl(encodeURIComponent(getInitial(name)))

IsFallback(src) == Len(src) = 10 /\ SubSeq(src, 1, 8) = SubSeq(FallbackUrl("U"), 1, 8)

\* getImageUrl as the copy of the hook calls it
ResolveFor(copy, path, flag) ==
  CASE copy = "Home" -> getImageUrlHome(path)
    [] copy = "Drawer" -> getImageUrlDrawer(path)
    [] copy = "PostDetails" -> getImageUrlPostDetails(path, flag)
    [] OTHER -> getImageUrlRanking(path, flag)

\* the retry candidate of handleImageError for cursor value pathIndex (0-based)
RetryUrl(copy, path, flag, pathIndex) ==
  LET cleaned == StripLeadingSlashes(path)
      storagePath == STORAGE_PATHS[pathIndex + 1]
      bare == RemoveFirst(cleaned, <<"avatar", "/">>)
  IN  IF copy # "Drawer" /\ flag
      THEN IF pathIndex = 0
           THEN BASE_URL \o <<"/", "storage", "/", "avatar", "/">> \o bare
           ELSE IF pathIndex = 1
           THEN BASE_URL \o <<"/", "api", "/", "users", "/">> \o FirstSegment(bare) \o <<"/", "avatar">>
           ELSE BASE_URL \o storagePath \o cleaned
      ELSE BASE_URL \o storagePath \o cleaned

RECURSIVE HomeAlternative(_, _)
\* HomeScreen.handleImageError: the loop over STORAGE_PATHS from index i on;
\* the first alternative URL it selects, NullRef when it selects none
HomeAlternative(originalUrl, i) ==
  IF i > Len(STORAGE_PATHS) THEN NullRef
  ELSE IF Includes(originalUrl, STORAGE_PATHS[i]) THEN HomeAlternative(originalUrl, i + 1)
  ELSE LET filename == LastSegment(originalUrl)
       IN  IF filename # <<>>
           THEN BASE_URL \o STORAGE_PATHS[i] \o filename
           ELSE HomeAlternative(originalUrl, i + 1)

HookCopies == {"Home", "Ranking", "PostDetails", "Drawer"}
\* the copies that take the isUserAvatar argument
FlagCopies == {"Ranking", "PostDetails"}

\* the state after the first render and its effect
InitHook ==
  /\ UrlIdle
  /\ FetchIdle
  /\ AppIdle
  /\ hCopy \in HookCopies
  /\ initialImagePath \in HookRefs
  /\ userName \in Names
  /\ isUserAvatar \in (IF hCopy \in FlagCopies THEN BOOLEAN ELSE {FALSE})
  /\ retryCount = 0
  /\ cbUserName = userName
  /\ consecFails = 0
  /\ tried = {}
  /\ lastOp = "mount"
  /\ IF hCopy = "PostDetails" /\ IsFalsy(initialImagePath)
     THEN /\ imageSource = useFallbackAvatarUrl(hCopy, userName)
          /\ imageError = TRUE
     ELSE /\ imageSource = ResolveFor(hCopy, initialImagePath, isUserAvatar)
          /\ imageError = FALSE

\* an <Image> is mounted with a source that can fail to load
ImageMounted ==
  /\ imageSource # NullRef
  /\ hCopy = "Drawer" => ~imageError

Saturate(n) == IF n < MaxFailures THEN n + 1 ELSE MaxFailures

\* handleImageError of RankingScreen, UserDetailsScreen, PostDetailsScreen
\* and DrawerContent: one more candidate
HandleImageErrorRetry ==
  /\ hCopy \in HookCopies \ {"Home"}
  /\ ImageMounted
  /\ retryCount < maxRetries /\ ~IsFalsy(initialImagePath)
  /\ retryCount' = retryCount + 1
  /\ imageSource' = RetryUrl(hCopy, initialImagePath, isUserAvatar, retryCount)
  /\ tried' = tried \cup {retryCount}
  /\ consecFails' = Saturate(consecFails)
  /\ lastOp' = "retry"
  /\ UNCHANGED <<hCopy, initialImagePath, userName, isUserAvatar, imageError,
                 cbUserName, urlVars, fetchVars, appVars>>

\* handleImageError of the same copies: the else branch, useFallbackAvatar
HandleImageErrorFallback ==
  /\ hCopy \in HookCopies \ {"Home"}
  /\ ImageMounted
  /\ ~(retryCount < maxRetries /\ ~IsFalsy(initialImagePath))
  /\ imageError' = TRUE
  /\ imageSource' = useFallbackAvatarUrl(hCopy, cbUserName)
  /\ consecFails' = Saturate(consecFails)
  /\ lastOp' = "fallback"
  /\ UNCHANGED <<hCopy, initialImagePath, userName, isUserAvatar, retryCount,
                 cbUserName, tried, urlVars, fetchVars, appVars>>

\* the URL HomeScreen's PostItem hands to the hook
HomeInitialUrl == IF IsFalsy(initialImagePath) THEN NullRef ELSE getImageUrlHome(initialImagePath)

\* handleImageError of HomeScreen
HandleImageErrorHome ==
  /\ hCopy = "Home"
  /\ ImageMounted
  /\ LET alt == IF imageError \/ HomeInitialUrl = NullRef
                THEN NullRef
                ELSE HomeAlternative(HomeInitialUrl, 1)
     IN  IF alt # NullRef
         THEN /\ imageSource' = alt
              /\ lastOp' = "retry"
              /\ UNCHANGED imageError
         ELSE /\ imageError' = TRUE
              /\ imageSource' = useFallbackAvatarUrl(hCopy, cbUserName)
                          /\ lastOp' = "fallback"
  /\ consecFails' = Saturate(consecFails)
  /\ UNCHANGED <<hCopy, initialImagePath, userName, isUserAvatar, retryCount,
                 cbUserName, tried, urlVars, fetchVars, appVars>>

\* does the "Reset and initialize image loading" effect run after a render
\* with the props p2, n2, f2?  Its dependency list, per copy.
EffectRuns(copy, p2, n2, f2) ==
  CASE copy = "Home" -> FALSE
    [] copy = "Drawer" -> p2 # initialImagePath
    [] copy = "PostDetails" -> p2 # initialImagePath \/ f2 # isUserAvatar \/ n2 # userName
    [] OTHER -> p2 # initialImagePath \/ f2 # isUserAvatar

\* is handleImageError created anew by a render with the props p2, n2, f2?
CallbackRenewed(copy, p2, n2, f2) ==
  CASE copy = "Home" -> TRUE
    [] copy = "Drawer" -> p2 # initialImagePath
    [] copy = "PostDetails" -> TRUE
    [] OTHER -> p2 # initialImagePath \/ f2 # isUserAvatar

\* the hook after a render with the props p2, n2, f2 and its effect
AfterRender(p2, n2, f2) ==
  LET runs == EffectRuns(hCopy, p2, n2, f2)
      reset == runs /\ ~IsFalsy(p2)
      toFallback == runs /\ IsFalsy(p2) /\ hCopy = "PostDetails"
      toNull == runs /\ IsFalsy(p2) /\ hCopy # "PostDetails"
  IN  [imageSource |-> IF reset THEN ResolveFor(hCopy, p2, f2)
                       ELSE IF toFallback THEN useFallbackAvatarUrl(hCopy, n2)
                       ELSE IF toNull THEN NullRef
                       ELSE imageSource,
       imageError |-> IF reset THEN FALSE ELSE IF toFallback THEN TRUE ELSE imageError,
       retryCount |-> IF reset THEN 0 ELSE retryCount,
       cbUserName |-> IF CallbackRenewed(hCopy, p2, n2, f2) THEN n2 ELSE cbUserName,
       tried |-> IF p2 # initialImagePath \/ f2 # isUserAvatar THEN {} ELSE tried]

\* the parent renders the component with another image reference
ChangeImagePath ==
  /\ hCopy \in HookCopies
  /\ \E p2 \in HookRefs \ {initialImagePath} :
       LET a == AfterRender(p2, userName, isUserAvatar)
       IN  /\ initialImagePath' = p2
           /\ imageSource' = a.imageSource
           /\ imageError' = a.imageError
           /\ retryCount' = a.retryCount
           /\ cbUserName' = a.cbUserName
           /\ tried' = a.tried
  /\ consecFails' = 0
  /\ lastOp' = "path"
  /\ UNCHANGED <<hCopy, userName, isUserAvatar, urlVars, fetchVars, appVars>>

\* the parent renders the component with another display name
ChangeUserName ==
  /\ hCopy \in HookCopies
  /\ \E n2 \in Names \ {userName} :
       LET a == AfterRender(initialImagePath, n2, isUserAvatar)
       IN  /\ userName' = n2
           /\ imageSource' = a.imageSource
           /\ imageError' = a.imageError
           /\ retryCount' = a.retryCount
           /\ cbUserName' = a.cbUserName
           /\ tried' = a.tried
  /\ consecFails' = 0
  /\ lastOp' = "name"
  /\ UNCHANGED <<hCopy, initialImagePath, isUserAvatar, urlVars, fetchVars, appVars>>

\* the parent renders the component with the other avatar flag
ChangeAvatarFlag ==
  /\ hCopy \in FlagCopies
  /\ LET a == AfterRender(initialImagePath, userName, ~isUserAvatar)
     IN  /\ isUserAvatar' = ~isUserAvatar
         /\ imageSource' = a.imageSource
         /\ imageError' = a.imageError
         /\ retryCount' = a.retryCount
         /\ cbUserName' = a.cbUserName
         /\ tried' = a.tried
  /\ consecFails' = 0
  /\ lastOp' = "flag"
  /\ UNCHANGED <<hCopy, initialImagePath, userName, urlVars, fetchVars, appVars>>

NextHook ==
  \/ HandleImageErrorRetry
  \/ HandleImageErrorFallback
  \/ HandleImageErrorHome
  \/ ChangeImagePath
  \/ ChangeUserName
  \/ ChangeAvatarFlag

SpecHook == InitHook /\ [][NextHook]_vars

\* the copies of the hook that keep a retry cursor
CursorCopies == {"Ranking", "PostDetails", "Drawer"}

\* the step is a client-reported image-load failure
IsFailureStep == lastOp' \in {"retry", "fallback"} /\ consecFails' # 0

C1_Inv ==
  (hCopy \in CursorCopies /\ initialImagePath # <<>>) =>
    /\ (lastOp = "fallback" /\ IsFallback(imageSource)) => tried = {0, 1, 2}
    /\ consecFails >= 4 => IsFallback(imageSource)
    /\ lastOp = "retry" => ~IsFallback(imageSource)

C1_Advance ==
  (hCopy \in CursorCopies /\ initialImagePath # <<>> /\ IsFailureStep) =>
    IF retryCount < 3
    THEN /\ retryCount' = retryCount + 1
         /\ tried' = tried \cup {retryCount}
         /\ ~IsFallback(imageSource')
    ELSE /\ retryCount' = retryCount
         /\ IsFallback(imageSource')

\* C1: in the hook with a retry cursor (RankingScreen, UserDetailsScreen,
\* PostDetailsScreen, DrawerContent) and for a non-empty image reference,
\* each image-load failure advances the cursor by exactly one candidate, the
\* fallback URL is substituted only after all three candidates were tried,
\* and it is there at the latest after the 4th consecutive failure.
C1_RetryThenFallback == [](C1_Inv) /\ [][C1_Advance]_vars

\* the 4th consecutive failure of a non-empty reference put the fallback in
C1_Witness ==
  /\ hCopy = "Ranking"
  /\ initialImagePath = <<"avatar", "/", "a.png">>
  /\ consecFails = 4
  /\ lastOp = "fallback"
  /\ tried = {0, 1, 2}
  /\ IsFallback(imageSource)

\* C2 (as claimed): in HomeScreen's hook with a non-null initial URL, enough
\* consecutive image-load failures put the fallback URL in the image source.
C2_HomeReachesFallback ==
  (hCopy = "Home" /\ HomeInitialUrl # NullRef /\ consecFails >= MaxFailures)
    => IsFallback(imageSource)

\* the display name's initial as the claim has it
C3_Initial(name) == IF name = <<>> THEN "U" ELSE ToUpperCase(Head(name))

C3_Step ==
  (IsFallback(imageSource') /\ (lastOp' = "fallback" \/ imageSource' # imageSource))
    => decodeURIComponent(imageSource'[9]) = C3_Initial(userName')

\* C3 (as claimed): whenever the fallback URL is substituted, in any copy of
\* the hook, its name parameter is the upper-cased first character of the
\* display name of that moment, or U when there is no name.
C3_FallbackInitial == [][C3_Step]_vars

C6_Step ==
  hCopy \in CursorCopies =>
    /\ retryCount' \in 0..3
    /\ (initialImagePath' = initialImagePath /\ isUserAvatar' = isUserAvatar)
         => retryCount' >= retryCount
    /\ ((initialImagePath' # initialImagePath \/ isUserAvatar' # isUserAvatar)
          /\ initialImagePath' # <<>>)
         => (retryCount' = 0 /\ imageError' = FALSE)

StatsLike == {"Statistics", "ReactionTypes", "Polls"}
\* RankingScreen, UserDetailsScreen, EventsScreen, MapScreen: a plain async
\* function, called by a mount effect
PlainFetch == {"Ranking", "UserDetails", "Events", "Map"}
Screens == StatsLike \cup PlainFetch \cup {"PostDetails"}

\* the four tabs of RankingScreen
TabIndexes == 0..3
\* const ranges = ['last24h', 'last_week', 'last_30_days', 'all_time'];
\* const range = ranges[selectedIndex] || 'all_time'
RangeOf(selectedIndex) ==
  LET ranges == <<"last24h", "last_week", "last_30_days", "all_time">>
  IN  IF selectedIndex + 1 \in DOMAIN ranges THEN ranges[selectedIndex + 1] ELSE "all_time"
SortOptions == {"recent", "oldest", "alphabet"}
\* what a successful response carries: a non-empty list (a valid post), or
\* an empty list (no valid post)
Payloads == {"items", "empty"}
NoData == [arg |-> "none", payload |-> "none"]

\* setError(t('failed_to_load')) and its variants
ErrorMessage == "failed_to_load"

\* a catch clause that also dropped the list
CatchDataCleared(d) == NoData

\* catch (err) { console.error(...); setError(...) }: the data is not touched
CatchData(d) == d

\* a finally clause that forgot setRefreshing(false)
FinallyRefreshingKept == refreshing

\* finally { setLoading(false); setRefreshing(false); }
FinallyRefreshing == FALSE

\* the argument a fetch started now would put in its URL
FetchArg ==
  CASE sScreen = "Ranking" -> RangeOf(activeIndex)
    [] sScreen = "Events" -> sortBy
    [] OTHER -> "none"

NewRequest(arg) ==
  [id |-> fetchCount + 1, arg |-> arg, phase |-> "main", tok |-> token]

\* `if (!refreshing) setLoading(true)` with the closed-over refreshing;
\* PostDetailsScreen calls setLoading(true) unconditionally
LoadingAtStart(closedRefreshing) ==
  IF sScreen = "PostDetails" THEN TRUE
  ELSE IF ~closedRefreshing THEN TRUE ELSE loading

\* setError('') at the start of a fetch; PostDetailsScreen has no error string
ErrorAtStart == IF sScreen = "PostDetails" THEN error ELSE ""

\* the content area shows the activity indicator
ShowsLoader == IF sScreen = "PostDetails" THEN loading ELSE loading /\ ~refreshing

\* the retry button of the error view is on screen
CanPressRetry ==
  /\ sScreen \in {"Ranking", "UserDetails", "Events"}
  /\ ~ShowsLoader
  /\ error # ""

\* a RefreshControl wired to the refresh handler is on screen and idle
CanPullRefresh ==
  /\ ~refreshing
  /\ CASE sScreen \in StatsLike -> TRUE
       [] sScreen \in {"Ranking", "UserDetails"} -> ~ShowsLoader /\ error = ""
       [] sScreen = "Events" -> ~ShowsLoader /\ error = "" /\ data.payload = "items"
       [] sScreen = "PostDetails" -> ~ShowsLoader /\ data.payload = "items"
       [] OTHER -> FALSE

\* the state after the first render: useState defaults, the mount effect due
InitFetch ==
  /\ UrlIdle
  /\ HookIdle
  /\ AppIdle
  /\ sScreen \in Screens
  /\ loading = TRUE
  /\ refreshing = FALSE
  /\ error = ""
  /\ data = NoData
  /\ inflight = {}
  /\ effectPending = TRUE
  /\ activeIndex = 0
  /\ sortBy = "recent"
  /\ token = "null"
  /\ tokenLoaded = FALSE
  /\ fetchCount = 0
  /\ gestures = 0
  /\ gesture = "mount"
  /\ gestureFetches = 0
  /\ lastEvent = "none"

\* useEffect(() => { fetch...() }, deps): the effect of the last render
RunFetchEffect ==
  /\ sScreen \in Screens
  /\ effectPending
  /\ effectPending' = FALSE
  /\ error' = ErrorAtStart
  /\ loading' = LoadingAtStart(refreshing)
  /\ inflight' = inflight \cup {NewRequest(FetchArg)}
  /\ fetchCount' = fetchCount + 1
  /\ gestureFetches' = gestureFetches + 1
  /\ lastEvent' = "start"
  /\ UNCHANGED <<sScreen, refreshing, data, activeIndex, sortBy, token, tokenLoaded,
                 gestures, gesture, urlVars, hookVars, appVars>>

\* onRefresh / handleRefresh: setRefreshing(true), then the fetch function
\* of the current render, which still sees refreshing = false
OnRefresh ==
  /\ sScreen \in Screens
  /\ ~effectPending
  /\ CanPullRefresh
  /\ gestures < MaxGestures
  /\ refreshing' = TRUE
  /\ error' = ErrorAtStart
  /\ loading' = LoadingAtStart(refreshing)
  /\ inflight' = inflight \cup {NewRequest(FetchArg)}
  /\ effectPending' = (sScreen \in StatsLike)
  /\ fetchCount' = fetchCount + 1
  /\ gestures' = gestures + 1
  /\ gesture' = "refresh"
  /\ gestureFetches' = 1
  /\ lastEvent' = "start"
  /\ UNCHANGED <<sScreen, data, activeIndex, sortBy, token, tokenLoaded, urlVars, hookVars, appVars>>

\* the retry button: onPress={() => fetchLeaderboard()} and its variants
PressRetry ==
  /\ ~effectPending
  /\ CanPressRetry
  /\ gestures < MaxGestures
  /\ error' = ErrorAtStart
  /\ loading' = LoadingAtStart(refreshing)
  /\ inflight' = inflight \cup {NewRequest(FetchArg)}
  /\ fetchCount' = fetchCount + 1
  /\ gestures' = gestures + 1
  /\ gesture' = "retry"
  /\ gestureFetches' = 1
  /\ lastEvent' = "start"
  /\ UNCHANGED <<sScreen, refreshing, data, effectPending, activeIndex, sortBy, token,
                 tokenLoaded, urlVars, hookVars, appVars>>

\* RankingScreen.handleTabChange(index)
HandleTabChange ==
  /\ sScreen = "Ranking"
  /\ ~effectPending
  /\ gestures < MaxGestures
  /\ \E index \in TabIndexes :
       /\ activeIndex' = index
       /\ inflight' = inflight \cup {NewRequest(RangeOf(index))}
  /\ error' = ErrorAtStart
  /\ loading' = LoadingAtStart(refreshing)
  /\ fetchCount' = fetchCount + 1
  /\ gestures' = gestures + 1
  /\ gesture' = "tab"
  /\ gestureFetches' = 1
  /\ lastEvent' = "start"
  /\ UNCHANGED <<sScreen, refreshing, data, effectPending, sortBy, token, tokenLoaded,
                 urlVars, hookVars, appVars>>

\* EventsScreen.selectSortOption(option): the effect over [sortBy] fetches
SelectSortOption ==
  /\ sScreen = "Events"
  /\ ~effectPending
  /\ gestures < MaxGestures
  /\ \E option \in SortOptions :
       /\ sortBy' = option
       /\ effectPending' = (option # sortBy)
  /\ gestures' = gestures + 1
  /\ gesture' = "sort"
  /\ gestureFetches' = 0
  /\ UNCHANGED <<sScreen, loading, refreshing, error, data, inflight, activeIndex, token,
                 tokenLoaded, fetchCount, lastEvent, urlVars, hookVars, appVars>>

\* PostDetailsScreen.loadToken: AsyncStorage.getItem('auth_token') resolves;
\* fetchPostDetails is a useCallback over [postId, token]
LoadToken ==
  /\ sScreen = "PostDetails"
  /\ ~effectPending
  /\ ~tokenLoaded
  /\ tokenLoaded' = TRUE
  /\ \E storedToken \in {"null", "tok"} :
       /\ token' = storedToken
       /\ effectPending' = (storedToken # token)
  /\ gesture' = "token"
  /\ gestureFetches' = 0
  /\ UNCHANGED <<sScreen, loading, refreshing, error, data, inflight, activeIndex, sortBy,
                 fetchCount, gestures, lastEvent, urlVars, hookVars, appVars>>

\* the user switches the language: useI18n hands out another t, and the
\* fetch callbacks over [refreshing, t] are created anew
ChangeLocale ==
  /\ sScreen \in StatsLike
  /\ ~effectPending
  /\ gestures < MaxGestures
  /\ effectPending' = TRUE
  /\ gestures' = gestures + 1
  /\ gesture' = "locale"
  /\ gestureFetches' = 0
  /\ UNCHANGED <<sScreen, loading, refreshing, error, data, inflight, activeIndex, sortBy,
                 token, tokenLoaded, fetchCount, lastEvent, urlVars, hookVars, appVars>>

\* the request goes on with GET /api/users/favorite-posts (PostDetailsScreen
\* with a token and a valid post)
GoesOnToFavorites(req, payload) ==
  sScreen = "PostDetails" /\ req.phase = "main" /\ payload = "items" /\ req.tok = "tok"

\* the awaited GET resolves
CompleteSuccess ==
  /\ ~effectPending
  /\ \E req \in inflight, payload \in Payloads :
       IF GoesOnToFavorites(req, payload)
       THEN /\ data' = [arg |-> req.arg, payload |-> payload]
            /\ inflight' = (inflight \ {req}) \cup {[req EXCEPT !.phase = "favorites"]}
            /\ UNCHANGED <<loading, refreshing, effectPending>>
       ELSE /\ data' = IF sScreen = "PostDetails"
                       THEN (IF req.phase = "favorites" THEN data
                             ELSE IF payload = "items" THEN [arg |-> req.arg, payload |-> payload]
                             ELSE NoData)
                       ELSE [arg |-> req.arg, payload |-> payload]
            /\ inflight' = inflight \ {req}
            /\ loading' = FALSE
            /\ refreshing' = FinallyRefreshing
            /\ effectPending' = (sScreen \in StatsLike /\ refreshing' # refreshing)
  /\ lastEvent' = "success"
  /\ UNCHANGED <<sScreen, error, activeIndex, sortBy, token, tokenLoaded, fetchCount,
                 gestures, gesture, gestureFetches, urlVars, hookVars, appVars>>

\* the awaited GET rejects
CompleteFailure ==
  /\ ~effectPending
  /\ \E req \in inflight :
       /\ inflight' = inflight \ {req}
       /\ data' = IF sScreen = "PostDetails"
                  THEN (IF req.phase = "favorites" THEN data ELSE NoData)
                  ELSE CatchData(data)
  /\ error' = IF sScreen = "PostDetails" THEN error ELSE ErrorMessage
  /\ loading' = FALSE
  /\ refreshing' = FinallyRefreshing
  /\ effectPending' = (sScreen \in StatsLike /\ refreshing' # refreshing)
  /\ lastEvent' = "failure"
  /\ UNCHANGED <<sScreen, activeIndex, sortBy, token, tokenLoaded, fetchCount,
                 gestures, gesture, gestureFetches, urlVars, hookVars, appVars>>

NextFetch ==
  \/ RunFetchEffect
  \/ OnRefresh
  \/ PressRetry
  \/ HandleTabChange
  \/ SelectSortOption
  \/ LoadToken
  \/ ChangeLocale
  \/ CompleteSuccess
  \/ CompleteFailure

SpecFetch == InitFetch /\ [][NextFetch]_vars

\* every issued request completes, and a due effect runs
SpecFetchFair ==
  /\ SpecFetch
  /\ WF_vars(RunFetchEffect)
  /\ WF_vars(CompleteSuccess \/ CompleteFailure)

\* no request is in flight and no effect is due
Quiescent == inflight = {} /\ ~effectPending

\* C7 (as claimed): in StatisticsScreen, ReactionTypesScreen and PollsScreen
\* one pull-to-refresh gesture starts exactly one GET request: from the
\* onRefresh call on, and still at the next quiescent state, one request has
\* been started.
C7_OneFetchPerRefresh ==
  (sScreen \in StatsLike /\ gesture = "refresh") => gestureFetches = 1

\* the data screens C8 lists
C8_Screens == {"Ranking", "UserDetails", "Events", "Statistics", "ReactionTypes", "Polls", "Map"}

C8_AtRest == Quiescent /\ ~loading /\ ~refreshing

\* C8: on every data screen, when every issued request completes, the
\* screen comes to rest again and again: no request in flight, no effect
\* due, loading = false and refreshing = false; fetches are not started
\* forever.
C8_ComesToRest == []<>(sScreen \in C8_Screens => C8_AtRest)

\* StatisticsScreen at rest after a pull-to-refresh and all it set off
C8_Witness ==
  /\ sScreen = "Statistics"
  /\ gesture = "refresh"
  /\ fetchCount = 4
  /\ C8_AtRest

\* C9 (as claimed): in every state reached by a failed fetch, on every data
\* screen, the user has an action that issues the fetch again (the retry
\* button or pull-to-refresh).
C9_RetryOnError ==
  (sScreen \in Screens /\ lastEvent = "failure" /\ ~effectPending /\ gestures < MaxGestures)
    => (CanPressRetry \/ CanPullRefresh)

\* the list screens C10 names
C10_Screens == {"Ranking", "UserDetails", "Events", "Statistics", "ReactionTypes", "Polls", "Map"}

C10_Step ==
  sScreen \in C10_Screens =>
    /\ (lastEvent' = "failure" /\ inflight' # inflight)
         => (error' # "" /\ data' = data /\ ~loading' /\ ~refreshing')
    /\ fetchCount' = fetchCount + 1 => error' = ""

\* C10: when a list fetch fails, the error string becomes non-empty, the
\* loaded data is left as it was, and loading and refreshing are both false
\* afterwards; the start of the next fetch clears the error string.
C10_FailureKeepsData == [][C10_Step]_vars

\* a refresh of a loaded StatisticsScreen failed: error shown, data kept
C10_Witness ==
  /\ sScreen = "Statistics"
  /\ lastEvent = "failure"
  /\ error = ErrorMessage
  /\ data.payload = "items"
  /\ ~loading
  /\ ~refreshing


\* ------------------------------------------------ ThemeProvider (ThemeContext)
MaxToggles == 3
MaxStarts == 1

ThemeModes == {"light", "dark", "system"}
\* useColorScheme() returns 'light', 'dark' or null
DeviceThemes == {"light", "dark", "null"}

\* a toggle that knows only light and dark
ToggleNextTwoWay(current) == IF current = "light" THEN "dark" ELSE "light"

\* the updater of toggleTheme
ToggleNext(current) ==
  IF current = "light" THEN "dark"
  ELSE IF current = "dark" THEN "system"
  ELSE "light"

\* const actualTheme = themeMode === 'system' ? deviceTheme : themeMode
ActualTheme(mode, device) == IF mode = "system" THEN device ELSE mode

\* isDarkMode: actualTheme === 'dark'
IsDarkModeOf(mode, device) == ActualTheme(mode, device) = "dark"

\* if (themeMode !== 'system') saveThemePreference()
SavesPreference(mode) == mode # "system"

\* the first render of an app start: useState('system'), the load effect has
\* issued its getItem, the save effect is due; the storage holds what earlier
\* sessions left
ThemeStart ==
  /\ storage \in {[EmptyStorage EXCEPT !["theme_preference"] = v] : v \in {"null", "light", "dark"}}
  /\ writtenKeys = {}
  /\ themeMode = "system"
  /\ deviceTheme = "light"
  /\ isDarkMode = IsDarkModeOf(themeMode, deviceTheme)
  /\ themeLoadPending = TRUE
  /\ savedTheme = storage["theme_preference"]
  /\ themeSavePending = TRUE
  /\ toggles = 0
  /\ starts = 0
  /\ lastSelected = "none"
  /\ streak = NoStreak
  /\ restored = "loading"

InitTheme ==
  /\ UrlIdle
  /\ HookIdle
  /\ FetchIdle
  /\ AuthIdle
  /\ PostsIdle
  /\ ThemeStart

\* toggleTheme()
ToggleTheme ==
  /\ ~themeSavePending
  /\ toggles < MaxToggles
  /\ themeMode' = ToggleNext(themeMode)
  /\ isDarkMode' = IsDarkModeOf(themeMode', deviceTheme)
  /\ themeSavePending' = (themeMode' # themeMode)
  /\ toggles' = toggles + 1
  /\ lastSelected' = themeMode'
  /\ streak' = IF streak.n = 0 THEN [from |-> themeMode, n |-> 1]
               ELSE [streak EXCEPT !.n = @ + 1]
  /\ restored' = "no"
  /\ UNCHANGED <<deviceTheme, themeLoadPending, savedTheme, starts, storeVars,
                 authVars, postVars, urlVars, hookVars, fetchVars>>

\* the save effect over [themeMode]
SaveThemeEffect ==
  /\ themeSavePending
  /\ themeSavePending' = FALSE
  /\ IF SavesPreference(themeMode)
     THEN /\ storage' = [storage EXCEPT !["theme_preference"] = themeMode]
          /\ writtenKeys' = writtenKeys \cup {"theme_preference"}
     ELSE UNCHANGED <<storage, writtenKeys>>
  /\ UNCHANGED <<themeMode, deviceTheme, isDarkMode, themeLoadPending, savedTheme,
                 toggles, starts, lastSelected, streak, restored,
                 authVars, postVars, urlVars, hookVars, fetchVars>>

\* loadThemePreference: the getItem of the load effect resolves
LoadThemePreference ==
  /\ themeLoadPending
  /\ ~themeSavePending
  /\ themeLoadPending' = FALSE
  /\ themeMode' = IF savedTheme # "null" THEN savedTheme ELSE themeMode
  /\ isDarkMode' = IsDarkModeOf(themeMode', deviceTheme)
  /\ themeSavePending' = (themeMode' # themeMode)
  /\ streak' = NoStreak
  /\ restored' = IF restored = "loading" THEN "fresh" ELSE "no"
  /\ UNCHANGED <<deviceTheme, savedTheme, toggles, starts, lastSelected, storeVars,
                 authVars, postVars, urlVars, hookVars, fetchVars>>

\* the device switches its colour scheme
ColorSchemeChanges ==
  /\ ~themeSavePending
  /\ \E scheme \in DeviceThemes \ {deviceTheme} :
       /\ deviceTheme' = scheme
       /\ isDarkMode' = IsDarkModeOf(themeMode, scheme)
  /\ UNCHANGED <<themeMode, themeLoadPending, savedTheme, themeSavePending, toggles,
                 starts, lastSelected, streak, restored, storeVars,
                 authVars, postVars, urlVars, hookVars, fetchVars>>

\* the app is closed and started again: ThemeProvider mounts anew
RestartApp ==
  /\ ~themeSavePending
  /\ starts < MaxStarts
  /\ starts' = starts + 1
  /\ themeMode' = "system"
  /\ isDarkMode' = IsDarkModeOf(themeMode', deviceTheme)
  /\ themeLoadPending' = TRUE
  /\ savedTheme' = storage["theme_preference"]
  /\ themeSavePending' = TRUE
  /\ streak' = NoStreak
  /\ restored' = "loading"
  /\ UNCHANGED <<deviceTheme, toggles, lastSelected, storeVars,
                 authVars, postVars, urlVars, hookVars, fetchVars>>

NextTheme ==
  \/ ToggleTheme
  \/ SaveThemeEffect
  \/ LoadThemePreference
  \/ ColorSchemeChanges
  \/ RestartApp

SpecTheme == InitTheme /\ [][NextTheme]_vars

\* C13 (state part): themeMode is one of the three modes, isDarkMode is true
\* exactly when the mode is dark or the mode is system and the device colour
\* scheme is dark, and three toggleTheme calls in a row are back at the mode
\* they started from.
C13_Inv ==
  /\ themeMode \in ThemeModes
  /\ isDarkMode <=> (themeMode = "dark" \/ (themeMode = "system" /\ deviceTheme = "dark"))
  /\ streak.n = 3 => themeMode = streak.from

\* C13 (step part): a toggleTheme call moves light to dark, dark to system
\* and system to light.
C13_Step ==
  toggles' = toggles + 1 =>
    \/ themeMode = "light" /\ themeMode' = "dark"
    \/ themeMode = "dark" /\ themeMode' = "system"
    \/ themeMode = "system" /\ themeMode' = "light"

\* C13: toggleTheme cycles light -> dark -> system -> light, three toggles
\* in a row return to the starting mode, themeMode stays one of the three
\* modes and isDarkMode follows themeMode and the device colour scheme.
C13_ToggleCycle == [](C13_Inv) /\ [][C13_Step]_vars

\* three toggles in a row from the mode restored from storage, on a dark device
C13_Witness ==
  /\ streak.n = 3
  /\ streak.from = "dark"
  /\ themeMode = "dark"
  /\ isDarkMode

\* C14 (as claimed): the mode the load effect restores at the next app start
\* is the mode toggleTheme selected last.
C14_ThemeRoundTrip ==
  (starts > 0 /\ restored = "fresh" /\ lastSelected # "none") => themeMode = lastSelected

\* C21 (as claimed): when toggleTheme was called while the getItem of the
\* load effect was still pending, the step in which that read completes
\* leaves themeMode at the mode the user selected.
C21_Step ==
  (themeLoadPending /\ ~themeLoadPending' /\ restored = "no") =>
    themeMode' = lastSelected

C21_ToggleSurvivesLoad == [][C21_Step]_vars


\* ------------------------------------------------ AuthProvider (AuthContext)
MaxOps == 2

\* the tokens the backend hands out
Tokens == {"tok"}
\* login, loginWithGoogle, loginWithApple: a response without token is a failure
LoginKinds == {"login", "google", "apple"}
TokenKinds == LoginKinds \cup {"register"}
\* loadProfile, loadPoints, loadNotifications
Loads == {"profile", "points", "notifications"}
\* Number(value) || 0 of a non-zero score
PointsValues == {7}
NotificationLists == {<<>>, <<"read", "unread">>}

\* request() throws: fetch rejected, the 12 s timer aborted it, or !res.ok
RequestFailures == {"network", "timeout", "http"}

\* the bodies of a 2xx response to a login or register request
NoTokenBody == [token |-> "null", access_token |-> "null", data_token |-> "null"]
ResponseBodies ==
  {NoTokenBody} \cup {[NoTokenBody EXCEPT ![f] = t] :
                        f \in {"token", "access_token", "data_token"}, t \in Tokens}

\* const tkn = data?.token || data?.access_token || data?.data?.token
TokenOf(body) ==
  IF body.token # "null" THEN body.token
  ELSE IF body.access_token # "null" THEN body.access_token
  ELSE body.data_token

\* the message of the catch clause of login / loginWithGoogle / loginWithApple
LoginErrorMessage(failure) ==
  CASE failure \in {"network", "timeout"} -> "Network error. Cannot reach API_BASE"
    [] failure = "http" -> "Request failed"
    [] OTHER -> "No token in response"

\* list.filter(n => n?.read === false || n?.read === 0 || n?.read_at == null).length
UnreadCountOf(list) == Cardinality({i \in 1..Len(list) : list[i] = "unread"})

NewCall(kind) ==
  [id |-> opCount + 1, kind |-> kind, phase |-> "request", tkn |-> authToken,
   pending |-> {}]

\* the call fails when the load that settles last has rejected
ResultAfterLoadsUncaught(kind, failed) ==
  [kind |-> kind, success |-> ~failed, error |-> IF failed THEN "Request failed" ELSE "",
   lastLoadRejected |-> failed]

\* return { success: true } after Promise.all([load...(tkn).catch(() => {})])
ResultAfterLoads(kind, failed) ==
  [kind |-> kind, success |-> TRUE, error |-> "", lastLoadRejected |-> failed]

FailureResult(kind, failure) ==
  [kind |-> kind, success |-> FALSE,
   error |-> IF kind = "register" THEN "Registration failed" ELSE LoginErrorMessage(failure),
   lastLoadRejected |-> FALSE]

\* logout returns nothing; what its request did is kept in the error field
DoneResult(kind, outcome) ==
  [kind |-> kind, success |-> (outcome = "ok"), error |-> outcome, lastLoadRejected |-> FALSE]

\* the state is cleared only after a 2xx answer to POST /api/logout
LogoutClearsOnSuccess(outcome) == outcome = "ok"

\* try { if (token) await request('/api/logout') } catch {}: the setters run
\* whatever the request did
LogoutClears(outcome) == TRUE

\* the navigator shows the drawer whatever the token
AppNavigatorShowsMain(tkn) == "main"

\* AppNavigator: token ? <Drawer.Navigator> : <AuthNavigator />
AppNavigatorShows(tkn) == IF tkn # "null" THEN "main" ELSE "auth"

\* HomeScreen is mounted with the drawer and unmounted with it
HomeAfter(shown) ==
  IF shown = display
  THEN [token |-> homeToken, loaded |-> homeTokenLoaded]
  ELSE [token |-> "null", loaded |-> FALSE]

\* handleVote calls the model follows
MaxVotes == 2

\* the id the server gives a new vote
NewVoteId == 5

\* the votes an earlier installation left under LOCAL_VOTES_KEY: a vote on
\* poll 1
SavedVotes == [NoVotes EXCEPT ![1] = [optionId |-> 2, voteId |-> 4,
                                      message |-> "vote_submitted", type |-> "success"]]

\* JSON.parse(savedVotes)
ParseVotes(str) == IF str = "saved" THEN SavedVotes ELSE NoVotes

\* the entry is replaced by the message alone
AuthRequiredEntryAlone(entry) == [NoVote EXCEPT !.message = "auth_required", !.type = "error"]

\* handleVote without a token: { ...prev[pollId], message, type: 'error' }
AuthRequiredEntry(entry) == [entry EXCEPT !.message = "auth_required", !.type = "error"]

\* the token handleVote sees is the one of AuthProvider
VoteTokenFromAuth == "tok"

\* PollsScreen.handleVote: const token = null
VoteToken == "null"

\* the first render: the useState defaults of AuthProvider, nothing stored
InitAuth ==
  /\ UrlIdle
  /\ HookIdle
  /\ FetchIdle
  /\ ThemeIdle
  /\ StoreIdle
  /\ PostsIdle
  /\ authToken = "null"
  /\ user = "null"
  /\ points = 0
  /\ notifications = <<>>
  /\ unreadCount = 0
  /\ authLoading = FALSE
  /\ calls = {}
  /\ opCount = 0
  /\ lastResult = NoResult
  /\ display = AppNavigatorShows(authToken)
  /\ homeToken = "null"
  /\ homeTokenLoaded = FALSE
  /\ userVotes = NoVotes
  /\ votesLoaded = FALSE
  /\ voteLog = NoVoteLog

\* LoginScreen: onPress={() => login(email, password)}; setLoading(true), POST /api/login
Login ==
  /\ display = "auth"
  /\ opCount < MaxOps
  /\ authLoading' = TRUE
  /\ calls' = calls \cup {NewCall("login")}
  /\ opCount' = opCount + 1
  /\ UNCHANGED <<authToken, user, points, notifications, unreadCount, lastResult,
                 display, homeToken, homeTokenLoaded, userVotes, votesLoaded, voteLog,
                 storeVars, themeVars, postVars, urlVars, hookVars, fetchVars>>

\* RegisterScreen: register(payload); setLoading(true), POST /api/register
Register ==
  /\ display = "auth"
  /\ opCount < MaxOps
  /\ authLoading' = TRUE
  /\ calls' = calls \cup {NewCall("register")}
  /\ opCount' = opCount + 1
  /\ UNCHANGED <<authToken, user, points, notifications, unreadCount, lastResult,
                 display, homeToken, homeTokenLoaded, userVotes, votesLoaded, voteLog,
                 storeVars, themeVars, postVars, urlVars, hookVars, fetchVars>>

\* LoginScreen: loginWithGoogle({ email }); setLoading(true), POST /api/auth/google/mock
LoginWithGoogle ==
  /\ display = "auth"
  /\ opCount < MaxOps
  /\ authLoading' = TRUE
  /\ calls' = calls \cup {NewCall("google")}
  /\ opCount' = opCount + 1
  /\ UNCHANGED <<authToken, user, points, notifications, unreadCount, lastResult,
                 display, homeToken, homeTokenLoaded, userVotes, votesLoaded, voteLog,
                 storeVars, themeVars, postVars, urlVars, hookVars, fetchVars>>

\* LoginScreen: loginWithApple({ email }); setLoading(true), POST /api/auth/apple/mock
LoginWithApple ==
  /\ display = "auth"
  /\ opCount < MaxOps
  /\ authLoading' = TRUE
  /\ calls' = calls \cup {NewCall("apple")}
  /\ opCount' = opCount + 1
  /\ UNCHANGED <<authToken, user, points, notifications, unreadCount, lastResult,
                 display, homeToken, homeTokenLoaded, userVotes, votesLoaded, voteLog,
                 storeVars, themeVars, postVars, urlVars, hookVars, fetchVars>>

\* the POST of login / register / loginWithGoogle / loginWithApple resolves
\* with a 2xx response
AuthResponse ==
  \E c \in calls, body \in ResponseBodies :
    /\ c.kind \in TokenKinds
    /\ c.phase = "request"
    /\ LET tkn == TokenOf(body) IN
       IF tkn # "null"
       THEN /\ authToken' = tkn
            /\ calls' = (calls \ {c}) \cup
                        {[c EXCEPT !.phase = "loads", !.tkn = tkn, !.pending = Loads]}
            /\ display' = AppNavigatorShows(authToken')
            /\ homeToken' = HomeAfter(display').token
            /\ homeTokenLoaded' = HomeAfter(display').loaded
            /\ UNCHANGED <<authLoading, lastResult>>
       ELSE /\ calls' = calls \ {c}
            /\ lastResult' = IF c.kind = "register" THEN ResultAfterLoads(c.kind, FALSE)
                             ELSE FailureResult(c.kind, "notoken")
            /\ authLoading' = FALSE
            /\ UNCHANGED <<authToken, display, homeToken, homeTokenLoaded>>
    /\ UNCHANGED <<user, points, notifications, unreadCount, opCount, userVotes, votesLoaded, voteLog,
                   storeVars, themeVars, postVars, urlVars, hookVars, fetchVars>>

\* request() throws in login / register / loginWithGoogle / loginWithApple
AuthRequestFails ==
  \E c \in calls, failure \in RequestFailures :
    /\ c.kind \in TokenKinds
    /\ c.phase = "request"
    /\ calls' = calls \ {c}
    /\ lastResult' = FailureResult(c.kind, failure)
    /\ authLoading' = FALSE
    /\ UNCHANGED <<authToken, user, points, notifications, unreadCount, opCount,
                   display, homeToken, homeTokenLoaded, userVotes, votesLoaded, voteLog,
                   storeVars, themeVars, postVars, urlVars, hookVars, fetchVars>>

\* one of loadProfile / loadPoints / loadNotifications resolves; with the
\* last of the three Promise.all resolves and the call returns
LoadResolves ==
  \E c \in calls :
    /\ c.phase = "loads"
    /\ \E l \in c.pending :
         /\ CASE l = "profile" ->
                   /\ user' = c.tkn
                   /\ UNCHANGED <<points, notifications, unreadCount>>
              [] l = "points" ->
                   /\ points' \in PointsValues
                   /\ UNCHANGED <<user, notifications, unreadCount>>
              [] OTHER ->
                   /\ notifications' \in NotificationLists
                   /\ unreadCount' = UnreadCountOf(notifications')
                   /\ UNCHANGED <<user, points>>
         /\ IF c.pending = {l}
            THEN /\ calls' = calls \ {c}
                 /\ lastResult' = ResultAfterLoads(c.kind, FALSE)
                 /\ authLoading' = FALSE
            ELSE /\ calls' = (calls \ {c}) \cup {[c EXCEPT !.pending = @ \ {l}]}
                 /\ UNCHANGED <<lastResult, authLoading>>
    /\ UNCHANGED <<authToken, opCount, display, homeToken, homeTokenLoaded,
                   userVotes, votesLoaded, voteLog, storeVars, themeVars, postVars, urlVars, hookVars, fetchVars>>

\* one of the three loads rejects: .catch(() => {})
LoadRejects ==
  \E c \in calls :
    /\ c.phase = "loads"
    /\ \E l \in c.pending :
         IF c.pending = {l}
         THEN /\ calls' = calls \ {c}
              /\ lastResult' = ResultAfterLoads(c.kind, TRUE)
              /\ authLoading' = FALSE
         ELSE /\ calls' = (calls \ {c}) \cup
                          {[c EXCEPT !.pending = @ \ {l}]}
              /\ UNCHANGED <<lastResult, authLoading>>
    /\ UNCHANGED <<authToken, user, points, notifications, unreadCount, opCount,
                   display, homeToken, homeTokenLoaded, userVotes, votesLoaded, voteLog,
                   storeVars, themeVars, postVars, urlVars, hookVars, fetchVars>>

\* DrawerContent: {token ? <DrawerItem onPress={logout} /> : ...}; logout
\* sends POST /api/logout when its token is set
Logout ==
  /\ display = "main"
  /\ opCount < MaxOps
  /\ opCount' = opCount + 1
  /\ IF authToken # "null"
     THEN /\ calls' = calls \cup {NewCall("logout")}
          /\ UNCHANGED <<authToken, user, points, notifications, unreadCount,
                         lastResult, display, homeToken, homeTokenLoaded>>
     ELSE /\ authToken' = "null"
          /\ user' = "null"
          /\ points' = 0
          /\ notifications' = <<>>
          /\ unreadCount' = 0
          /\ lastResult' = DoneResult("logout", "skipped")
          /\ display' = AppNavigatorShows(authToken')
          /\ homeToken' = HomeAfter(display').token
          /\ homeTokenLoaded' = HomeAfter(display').loaded
          /\ UNCHANGED calls
  /\ UNCHANGED <<authLoading, userVotes, votesLoaded, voteLog, storeVars, themeVars, postVars, urlVars, hookVars, fetchVars>>

\* the POST /api/logout of logout resolves or throws: the rest of logout
LogoutCompletes ==
  \E c \in calls, outcome \in {"ok"} \cup RequestFailures :
    /\ c.kind = "logout"
    /\ calls' = calls \ {c}
    /\ lastResult' = DoneResult("logout", outcome)
    /\ IF LogoutClears(outcome)
       THEN /\ authToken' = "null"
            /\ user' = "null"
            /\ points' = 0
            /\ notifications' = <<>>
            /\ unreadCount' = 0
            /\ display' = AppNavigatorShows(authToken')
            /\ homeToken' = HomeAfter(display').token
            /\ homeTokenLoaded' = HomeAfter(display').loaded
       ELSE UNCHANGED <<authToken, user, points, notifications, unreadCount, display,
                        homeToken, homeTokenLoaded>>
    /\ UNCHANGED <<authLoading, opCount, userVotes, votesLoaded, voteLog, storeVars, themeVars,
                   postVars, urlVars, hookVars, fetchVars>>

\* HomeScreen / PostDetailsScreen loadToken: the mount effect reads
\* AsyncStorage.getItem('auth_token') and keeps it in the screen's own state
ReadStoredToken ==
  /\ display = "main"
  /\ ~homeTokenLoaded
  /\ homeToken' = storage["auth_token"]
  /\ homeTokenLoaded' = TRUE
  /\ UNCHANGED <<authToken, user, points, notifications, unreadCount, authLoading,
                 calls, opCount, lastResult, display, userVotes, votesLoaded, voteLog,
                 storeVars, themeVars, postVars, urlVars, hookVars, fetchVars>>

\* PollsScreen.loadSavedVotes: getItem(LOCAL_VOTES_KEY) resolves; a stored
\* value replaces userVotes
LoadSavedVotes ==
  /\ display = "main"
  /\ ~votesLoaded
  /\ votesLoaded' = TRUE
  /\ userVotes' = IF storage["user_poll_votes"] # "null"
                  THEN ParseVotes(storage["user_poll_votes"])
                  ELSE userVotes
  /\ UNCHANGED <<authToken, user, points, notifications, unreadCount, authLoading,
                 calls, opCount, lastResult, display, homeToken, homeTokenLoaded,
                 voteLog, storeVars, themeVars, postVars, urlVars, hookVars, fetchVars>>

\* PollsScreen.handleVote(pollId, option); past the token test the awaited
\* request and what follows it are taken in one step
HandleVote ==
  /\ display = "main"
  /\ voteLog.calls < MaxVotes
  /\ \E pollId \in PollIds, option \in OptionIds :
       IF VoteToken = "null"
       THEN /\ userVotes' = [userVotes EXCEPT ![pollId] = AuthRequiredEntry(@)]
            /\ voteLog' = [calls |-> voteLog.calls + 1, poll |-> pollId,
                           requests |-> voteLog.requests]
            /\ UNCHANGED storeVars
       ELSE /\ voteLog' = [calls |-> voteLog.calls + 1, poll |-> pollId,
                           requests |-> voteLog.requests + 1]
            /\ \E outcome \in {"ok", "http"} :
                 IF outcome = "ok"
                 THEN /\ userVotes' = [userVotes EXCEPT ![pollId] =
                                         IF @.voteId # 0
                                         THEN [NoVote EXCEPT !.message = "vote_removed",
                                                             !.type = "success"]
                                         ELSE [optionId |-> option, voteId |-> NewVoteId,
                                               message |-> "vote_submitted",
                                               type |-> "success"]]
                      /\ storage' = [storage EXCEPT !["user_poll_votes"] = "written"]
                      /\ writtenKeys' = writtenKeys \cup {"user_poll_votes"}
                 ELSE /\ userVotes' = [userVotes EXCEPT ![pollId] =
                                         [@ EXCEPT !.message = IF @.voteId # 0
                                                               THEN "vote_remove_failed"
                                                               ELSE "vote_submit_failed",
                                                   !.type = "error"]]
                      /\ UNCHANGED storeVars
  /\ UNCHANGED <<authToken, user, points, notifications, unreadCount, authLoading,
                 calls, opCount, lastResult, display, homeToken, homeTokenLoaded,
                 votesLoaded, themeVars, postVars, urlVars, hookVars, fetchVars>>

NextAuth ==
  \/ Login
  \/ Register
  \/ LoginWithGoogle
  \/ LoginWithApple
  \/ AuthResponse
  \/ AuthRequestFails
  \/ LoadResolves
  \/ LoadRejects
  \/ Logout
  \/ LogoutCompletes
  \/ ReadStoredToken

SpecAuth == InitAuth /\ [][NextAuth]_vars

\* the call c returns in this step
Returns(c) == \A d \in calls' : d.id # c.id

\* C11 (step): the value a completed read of 'auth_token' leaves in the
\* screen is the token AuthProvider holds.
C11_Step == (~homeTokenLoaded /\ homeTokenLoaded') => homeToken' = authToken'

\* C11 (as claimed): after a successful login a read of the 'auth_token' key
\* by HomeScreen or PostDetailsScreen returns the token held by AuthProvider,
\* and after logout it returns no token.
C11_StoredToken == [][C11_Step]_vars

\* C15 (state part): the drawer with the main screens is displayed exactly
\* when the AuthProvider token is non-null, the auth screens otherwise.
C15_Inv ==
  /\ display \in {"main", "auth"}
  /\ display = "main" <=> authToken # "null"

\* C15 (step part): when logout completes the auth screens are displayed.
C15_Step ==
  (\E c \in calls : c.kind = "logout" /\ Returns(c)) => display' = "auth"

\* C15: AppNavigator shows the main screens exactly when token is non-null
\* and the AuthNavigator otherwise; no main screen is displayed while token
\* is null, and after logout completes the auth screens are displayed.
C15_Navigator == [](C15_Inv) /\ [][C15_Step]_vars

\* a logout has completed and the login screens are back
C15_Witness ==
  /\ lastResult.kind = "logout"
  /\ display = "auth"
  /\ authToken = "null"
  /\ opCount = 2

\* C16 (step): a step in which logout returns, after its request resolved,
\* threw or was skipped, leaves token, user, points, notifications and
\* unreadCount at their empty values.
C16_Step ==
  ((\E c \in calls : c.kind = "logout" /\ Returns(c))
     \/ (lastResult' # lastResult /\ lastResult'.error = "skipped")) =>
    /\ authToken' = "null"
    /\ user' = "null"
    /\ points' = 0
    /\ notifications' = <<>>
    /\ unreadCount' = 0

\* C16: logout always ends with token = null, user = null, points = 0,
\* notifications = [] and unreadCount = 0, whatever POST /api/logout did.
C16_LogoutClears == [][C16_Step]_vars

\* a logout whose request timed out has returned
C16_Witness ==
  /\ lastResult.kind = "logout"
  /\ lastResult.error = "timeout"
  /\ authToken = "null"
  /\ user = "null"
  /\ points = 0
  /\ notifications = <<>>
  /\ unreadCount = 0

\* C17 (step): a login that fails changes nothing but loading and returns a
\* failure with a message; a login response with a token sets the token; a
\* login that went on to the three loads returns success.
C17_Step ==
  \A c \in calls :
    c.kind = "login" =>
      /\ (c.phase = "request" /\ Returns(c)) =>
           /\ UNCHANGED <<authToken, user, points, notifications>>
           /\ lastResult'.kind = "login"
           /\ ~lastResult'.success
           /\ lastResult'.error # ""
           /\ ~authLoading'
      /\ (c.phase = "request" /\ ~Returns(c) /\ c \notin calls') =>
           /\ authToken' \in Tokens
           /\ \E d \in calls' : d.id = c.id /\ d.tkn = authToken' /\ d.phase = "loads"
      /\ (c.phase = "loads" /\ Returns(c)) =>
           /\ lastResult'.kind = "login"
           /\ lastResult'.success
           /\ ~authLoading'

\* C17: a failed login leaves token, user, points and notifications
\* unchanged, returns {success: false, error: <message>} and ends with
\* loading = false; a login whose response carries a token sets the token
\* and returns {success: true} even when the three loads fail.
C17_LoginOutcome == [][C17_Step]_vars

\* the one login returned success although all three loads rejected
C17_Witness ==
  /\ opCount = 1
  /\ calls = {}
  /\ lastResult.kind = "login"
  /\ lastResult.success
  /\ lastResult.lastLoadRejected
  /\ authToken \in Tokens
  /\ user = "null"
  /\ points = 0
  /\ notifications = <<>>

\* C18 (as claimed): whenever no auth operation is in flight, token = null
\* implies user = null, points = 0, notifications = [] and unreadCount = 0,
\* under every interleaving of login, its loads and logout.
C18_SignedOutIsEmpty ==
  (calls = {} /\ authToken = "null") =>
    /\ user = "null"
    /\ points = 0
    /\ notifications = <<>>
    /\ unreadCount = 0

\* C19 (as claimed): loading is true exactly while a login, register,
\* loginWithGoogle or loginWithApple call is in flight.
C19_LoadingFlag == authLoading <=> (\E c \in calls : c.kind \in TokenKinds)

\* ------------------------------------------- a signed-in session and storage
\* the app after a login that loaded profile, points and notifications: the
\* drawer is shown, ThemeProvider is in its first render
InitStore ==
  /\ UrlIdle
  /\ HookIdle
  /\ FetchIdle
  /\ PostsIdle
  /\ ThemeStart
  /\ authToken \in Tokens
  /\ user = authToken
  /\ points \in PointsValues
  /\ notifications = <<"read", "unread">>
  /\ unreadCount = UnreadCountOf(notifications)
  /\ authLoading = FALSE
  /\ calls = {}
  /\ opCount = 1
  /\ lastResult = ResultAfterLoads("login", FALSE)
  /\ display = AppNavigatorShows(authToken)
  /\ homeToken = "null"
  /\ homeTokenLoaded = FALSE
  /\ userVotes = NoVotes
  /\ votesLoaded = FALSE
  /\ voteLog = NoVoteLog

NextStore ==
  \/ ToggleTheme
  \/ SaveThemeEffect
  \/ LoadThemePreference
  \/ ColorSchemeChanges
  \/ ReadStoredToken
  \/ HandleVote
  \/ Logout
  \/ LogoutCompletes

SpecStore == InitStore /\ [][NextStore]_vars

\* C12: the only keys the app has written to local key-value storage are the
\* theme preference and the auth token; no sequence of user actions, voting
\* in PollsScreen included, writes another key such as 'user_poll_votes'.
C12_WrittenKeys ==
  /\ writtenKeys \subseteq {"theme_preference", "auth_token"}
  /\ storage["user_poll_votes"] = "null"

\* the user has chosen a theme and has tried to vote
C12_Witness ==
  /\ userVotes[1].message = "auth_required"
  /\ writtenKeys = {"theme_preference"}
  /\ storage["theme_preference"] = "dark"

\* C20 (as claimed): in RankingScreen, once no leaderboard request is in
\* flight, the list on display is the response for the range of the active
\* tab, whatever the order in which the responses arrived.
C20_ActiveTabData ==
  (sScreen = "Ranking" /\ Quiescent /\ error = "" /\ data # NoData) =>
    data.arg = RangeOf(activeIndex)


\* ------------------------------ Posts (HomeScreen) and PostDetailsScreen
MaxTaps == 3

PostScreens == {"Home", "PostDetails"}

\* the posts the component offers a heart for: the list of HomeScreen, the
\* one post of PostDetailsScreen
ShownPosts(screen) == IF screen = "PostDetails" THEN {1} ELSE PostIds

\* what GET /api/users/favorite-posts can report for these posts
FavoriteMaps(screen) == {m \in [PostIds -> BOOLEAN] : \A p \in PostIds \ ShownPosts(screen) : ~m[p]}

\* PostDetailsScreen: disabled={favoriting || !token}
HeartDisabled(screen, tkn, busy) == screen = "PostDetails" /\ (busy \/ tkn = "null")

\* toggleFavorite up to its request: nothing without a token or while the
\* post is marked as in progress, else DELETE for a favorite and POST otherwise
FavoriteSends(tkn, busy, isFav) ==
  IF tkn = "null" THEN "none"
  ELSE IF busy THEN "none"
  ELSE IF isFav THEN "DELETE"
  ELSE "POST"

\* the flag is set on the tap, before the request is answered
FlagAfterOptimistic(isFav, current, ok) == ~isFav

\* toggleFavorite after its request: [postId]: !isFav on success only
FlagAfter(isFav, current, ok) == IF ok THEN ~isFav ELSE current

\* a reaction is added to the one the post has
ReactionAfterAdded(current, reactionType) == IF current = 0 THEN reactionType ELSE 3

\* toggleReaction: the same reaction deletes the entry, another one sets it
ReactionAfter(current, reactionType) == IF current = reactionType THEN 0 ELSE reactionType

\* what the handlers of a render close over
Closure == [favoriting |-> favoriting, favoritedByPost |-> favoritedByPost,
            reactionTypeByPost |-> reactionTypeByPost]

\* the first render: the useState defaults; fetchFavorites without a token
\* has set the empty map
InitPosts ==
  /\ UrlIdle
  /\ HookIdle
  /\ FetchIdle
  /\ StoreIdle
  /\ ThemeIdle
  /\ AuthIdle
  /\ pScreen \in PostScreens
  /\ pToken = "null"
  /\ pTokenLoaded = FALSE
  /\ favoritedByPost = NoFlags
  /\ favoriting = NoFlags
  /\ reactionTypeByPost = NoReactions
  /\ reactionFlashByPost = NoFlags
  /\ flashTimers = NoTimers
  /\ rendered = Closure
  /\ renderPending = FALSE
  /\ favCalls = {}
  /\ favoritesPending = FALSE
  /\ pTaps = 0
  /\ lastCall = NoCall
  /\ flagBase = NoFlags
  /\ flips = NoFlips

\* loadToken: AsyncStorage.getItem('auth_token') resolves; with a token the
\* effect over fetchFavorites (fetchPostDetails) runs again and asks for the
\* favorites
LoadPostsToken ==
  /\ ~pTokenLoaded
  /\ pTokenLoaded' = TRUE
  /\ \E storedToken \in {"null", "tok"} :
       /\ pToken' = storedToken
       /\ favoritesPending' = (storedToken # "null")
  /\ lastCall' = [op |-> "token", post |-> 0, sent |-> "none", reaction |-> 0, before |-> 0]
  /\ UNCHANGED <<pScreen, favoritedByPost, favoriting, reactionTypeByPost,
                 reactionFlashByPost, flashTimers, rendered, renderPending, favCalls,
                 pTaps, flagBase, flips,
                 storeVars, themeVars, authVars, urlVars, hookVars, fetchVars>>

\* GET /api/users/favorite-posts is answered: setFavoritedByPost(map)
\* (setIsFavorited(isFav) in PostDetailsScreen)
FavoritesResponse ==
  /\ favoritesPending
  /\ favoritesPending' = FALSE
  /\ \E m \in FavoriteMaps(pScreen) :
       /\ favoritedByPost' = m
       /\ flagBase' = m
  /\ flips' = NoFlips
  /\ favCalls' = {[c EXCEPT !.counted = FALSE] : c \in favCalls}
  /\ renderPending' = TRUE
  /\ lastCall' = [op |-> "favorites", post |-> 0, sent |-> "none", reaction |-> 0, before |-> 0]
  /\ UNCHANGED <<pScreen, pToken, pTokenLoaded, favoriting, reactionTypeByPost,
                 reactionFlashByPost, flashTimers, rendered, pTaps,
                 storeVars, themeVars, authVars, urlVars, hookVars, fetchVars>>

\* GET /api/users/favorite-posts fails: the catch clause only logs
FavoritesFails ==
  /\ favoritesPending
  /\ favoritesPending' = FALSE
  /\ lastCall' = [op |-> "favoritesErr", post |-> 0, sent |-> "none", reaction |-> 0, before |-> 0]
  /\ UNCHANGED <<pScreen, pToken, pTokenLoaded, favoritedByPost, favoriting,
                 reactionTypeByPost, reactionFlashByPost, flashTimers, rendered,
                 renderPending, favCalls, pTaps, flagBase, flips,
                 storeVars, themeVars, authVars, urlVars, hookVars, fetchVars>>

\* the component renders: its handlers close over the current state
RenderPosts ==
  /\ renderPending
  /\ renderPending' = FALSE
  /\ rendered' = Closure
  /\ UNCHANGED <<pScreen, pToken, pTokenLoaded, favoritedByPost, favoriting,
                 reactionTypeByPost, reactionFlashByPost, flashTimers, favCalls,
                 favoritesPending, pTaps, lastCall, flagBase, flips,
                 storeVars, themeVars, authVars, urlVars, hookVars, fetchVars>>

\* toggleFavorite(postId), called by a press on the heart of the last render
ToggleFavorite ==
  /\ ~renderPending
  /\ pTaps < MaxTaps
  /\ \E p \in ShownPosts(pScreen) :
       LET busy == rendered.favoriting[p]
           isFav == rendered.favoritedByPost[p]
           sent == FavoriteSends(pToken, busy, isFav)
       IN /\ ~HeartDisabled(pScreen, pToken, busy)
          /\ lastCall' = [op |-> "favorite", post |-> p, sent |-> sent, reaction |-> 0, before |-> 0]
          /\ IF sent = "none"
             THEN UNCHANGED <<favoriting, favCalls, renderPending>>
             ELSE /\ favoriting' = [favoriting EXCEPT ![p] = TRUE]
                  /\ favCalls' = favCalls \cup
                       {[id |-> pTaps + 1, post |-> p, method |-> sent,
                         isFav |-> isFav, counted |-> TRUE]}
                  /\ renderPending' = TRUE
  /\ pTaps' = pTaps + 1
  /\ UNCHANGED <<pScreen, pToken, pTokenLoaded, favoritedByPost, reactionTypeByPost,
                 reactionFlashByPost, flashTimers, rendered, favoritesPending,
                 flagBase, flips,
                 storeVars, themeVars, authVars, urlVars, hookVars, fetchVars>>

\* toggleFavorite(postId), called again before the update of the call
\* before it has been rendered
EarlyToggleFavorite ==
  /\ renderPending
  /\ pTaps < MaxTaps
  /\ \E p \in ShownPosts(pScreen) :
       LET busy == rendered.favoriting[p]
           isFav == rendered.favoritedByPost[p]
           sent == FavoriteSends(pToken, busy, isFav)
       IN /\ ~HeartDisabled(pScreen, pToken, busy)
          /\ lastCall' = [op |-> "favorite", post |-> p, sent |-> sent, reaction |-> 0, before |-> 0]
          /\ IF sent = "none"
             THEN UNCHANGED <<favoriting, favCalls>>
             ELSE /\ favoriting' = [favoriting EXCEPT ![p] = TRUE]
                  /\ favCalls' = favCalls \cup
                       {[id |-> pTaps + 1, post |-> p, method |-> sent,
                         isFav |-> isFav, counted |-> TRUE]}
  /\ pTaps' = pTaps + 1
  /\ UNCHANGED <<pScreen, pToken, pTokenLoaded, favoritedByPost, reactionTypeByPost,
                 reactionFlashByPost, flashTimers, rendered, renderPending,
                 favoritesPending, flagBase, flips,
                 storeVars, themeVars, authVars, urlVars, hookVars, fetchVars>>

\* the DELETE / POST of a toggleFavorite call succeeds: the flag is set to
\* !isFav, then the finally clause clears favoriting
FavoriteSucceeds ==
  /\ \E c \in favCalls :
       /\ favCalls' = favCalls \ {c}
       /\ favoritedByPost' = [favoritedByPost EXCEPT
                                ![c.post] = FlagAfter(c.isFav, @, TRUE)]
       /\ favoriting' = [favoriting EXCEPT ![c.post] = FALSE]
       /\ flagBase' = IF c.counted THEN flagBase
                      ELSE [flagBase EXCEPT ![c.post] = favoritedByPost'[c.post]]
       /\ flips' = [flips EXCEPT ![c.post] = IF c.counted THEN @ + 1 ELSE 0]
       /\ lastCall' = [op |-> "favoriteOk", post |-> c.post, sent |-> c.method, reaction |-> 0, before |-> 0]
  /\ renderPending' = TRUE
  /\ UNCHANGED <<pScreen, pToken, pTokenLoaded, reactionTypeByPost,
                 reactionFlashByPost, flashTimers, rendered, favoritesPending, pTaps,
                 storeVars, themeVars, authVars, urlVars, hookVars, fetchVars>>

\* the DELETE / POST of a toggleFavorite call fails: catch logs, finally
\* clears favoriting
FavoriteFails ==
  /\ \E c \in favCalls :
       /\ favCalls' = favCalls \ {c}
       /\ favoritedByPost' = [favoritedByPost EXCEPT
                                ![c.post] = FlagAfter(c.isFav, @, FALSE)]
       /\ favoriting' = [favoriting EXCEPT ![c.post] = FALSE]
       /\ lastCall' = [op |-> "favoriteErr", post |-> c.post, sent |-> c.method, reaction |-> 0, before |-> 0]
  /\ renderPending' = TRUE
  /\ UNCHANGED <<pScreen, pToken, pTokenLoaded, reactionTypeByPost,
                 reactionFlashByPost, flashTimers, rendered, favoritesPending, pTaps,
                 flagBase, flips,
                 storeVars, themeVars, authVars, urlVars, hookVars, fetchVars>>

\* HomeScreen toggleReaction(postId, reactionType): without a token nothing;
\* else the entry is deleted or set, the flash message is set and a timer of
\* 1500 ms is started
ToggleReaction ==
  /\ pScreen = "Home"
  /\ ~renderPending
  /\ pTaps < MaxTaps
  /\ \E p \in PostIds, reactionType \in {1, 2} :
       /\ lastCall' = [op |-> "reaction", post |-> p, sent |-> "none",
                       reaction |-> reactionType, before |-> reactionTypeByPost[p]]
       /\ IF pToken = "null"
          THEN UNCHANGED <<reactionTypeByPost, reactionFlashByPost, flashTimers,
                           renderPending>>
          ELSE /\ reactionTypeByPost' = [reactionTypeByPost EXCEPT ![p] =
                    ReactionAfter(rendered.reactionTypeByPost[p], reactionType)]
               /\ reactionFlashByPost' = [reactionFlashByPost EXCEPT ![p] = TRUE]
               /\ flashTimers' = [flashTimers EXCEPT ![p] = @ + 1]
               /\ renderPending' = TRUE
  /\ pTaps' = pTaps + 1
  /\ UNCHANGED <<pScreen, pToken, pTokenLoaded, favoritedByPost, favoriting, rendered,
                 favCalls, favoritesPending, flagBase, flips,
                 storeVars, themeVars, authVars, urlVars, hookVars, fetchVars>>

\* a setTimeout callback of toggleReaction runs: the flash entry is deleted
FlashTimeout ==
  /\ \E p \in PostIds :
       /\ flashTimers[p] > 0
       /\ flashTimers' = [flashTimers EXCEPT ![p] = @ - 1]
       /\ reactionFlashByPost' = [reactionFlashByPost EXCEPT ![p] = FALSE]
  /\ renderPending' = TRUE
  /\ UNCHANGED <<pScreen, pToken, pTokenLoaded, favoritedByPost, favoriting,
                 reactionTypeByPost, rendered, favCalls, favoritesPending, pTaps,
                 lastCall, flagBase, flips,
                 storeVars, themeVars, authVars, urlVars, hookVars, fetchVars>>

\* presses are handled after the render of the update before them
NextPosts ==
  \/ LoadPostsToken
  \/ FavoritesResponse
  \/ FavoritesFails
  \/ RenderPosts
  \/ ToggleFavorite
  \/ FavoriteSucceeds
  \/ FavoriteFails
  \/ ToggleReaction
  \/ FlashTimeout

SpecPosts == InitPosts /\ [][NextPosts]_vars

\* timers fire and pending renders happen
SpecPostsFair == SpecPosts /\ WF_vars(FlashTimeout) /\ WF_vars(RenderPosts)

\* a press may also be handled before that render
NextPostsEarly ==
  \/ NextPosts
  \/ EarlyToggleFavorite

SpecPostsEarly == InitPosts /\ [][NextPostsEarly]_vars

\* C22 (step): a toggleFavorite call never changes a flag itself, sends
\* nothing and changes nothing without a token, and with a token and no
\* toggle in progress sends DELETE for a favorite and POST otherwise; when
\* its request is answered, the flag of that post becomes the opposite of
\* what the call read on success and stays on failure, no other post's flag
\* changes, and favoriting of that post is cleared.
C22_Step ==
  LET p == lastCall'.post
  IN /\ (pTaps' = pTaps + 1 /\ lastCall'.op = "favorite") =>
          /\ favoritedByPost' = favoritedByPost
          /\ pToken = "null" =>
               /\ lastCall'.sent = "none"
               /\ favCalls' = favCalls
               /\ favoriting' = favoriting
          /\ (pToken # "null" /\ ~favoriting[p]) =>
               /\ lastCall'.sent = IF favoritedByPost[p] THEN "DELETE" ELSE "POST"
               /\ \E c \in favCalls' \ favCalls :
                    c.post = p /\ c.method = lastCall'.sent
     /\ (favCalls' # favCalls /\ lastCall'.op \in {"favoriteOk", "favoriteErr"}) =>
          \E c \in favCalls \ favCalls' :
            /\ c.post = p
            /\ favoritedByPost'[p] = IF lastCall'.op = "favoriteOk" THEN ~c.isFav
                                     ELSE favoritedByPost[p]
            /\ \A q \in PostIds \ {p} : favoritedByPost'[q] = favoritedByPost[q]
            /\ ~favoriting'[p]

C24_Inv ==
  \A p \in PostIds :
    /\ reactionTypeByPost[p] \in {0, 1, 2}
    /\ reactionFlashByPost[p] => flashTimers[p] > 0

\* C24 (step part): without a token toggleReaction leaves the reaction map
\* and the flash messages alone; with one, pressing the reaction the post
\* has removes it and pressing the other one replaces it, and no other post
\* changes.
C24_Step ==
  (pTaps' = pTaps + 1 /\ lastCall'.op = "reaction") =>
    LET p == lastCall'.post
        r == lastCall'.reaction
    IN IF pToken = "null"
       THEN /\ reactionTypeByPost' = reactionTypeByPost
            /\ reactionFlashByPost' = reactionFlashByPost
       ELSE /\ reactionTypeByPost'[p] = IF reactionTypeByPost[p] = r THEN 0 ELSE r
            /\ \A q \in PostIds \ {p} : reactionTypeByPost'[q] = reactionTypeByPost[q]
            /\ reactionFlashByPost'[p]

\* the step is the second of two presses in a row of the same reaction on
\* the same post
C24_SecondPress ==
  /\ pTaps' = pTaps + 1
  /\ lastCall'.op = "reaction"
  /\ lastCall.op = "reaction"
  /\ lastCall'.post = lastCall.post
  /\ lastCall'.reaction = lastCall.reaction
  /\ pToken # "null"

\* pressing the same reaction twice restores the state before the first press
C24_TwiceStep ==
  C24_SecondPress => reactionTypeByPost'[lastCall.post] = lastCall.before

\* the same, when the post had no reaction or the pressed one before
C24_TwiceStepSame ==
  (C24_SecondPress /\ lastCall.before \in {0, lastCall.reaction}) =>
    reactionTypeByPost'[lastCall.post] = lastCall.before

\* every flash message is removed in the end
C24_FlashRemoved == \A p \in PostIds : reactionFlashByPost[p] ~> ~reactionFlashByPost[p]

\* C24 (as claimed): toggleReaction keeps at most one reaction per post,
\* removes the reaction the post has, replaces the other one, changes
\* nothing without a token, pressing the same reaction twice restores the
\* previous state, and every 'Reaction saved' flash message is eventually
\* removed.
C24_ReactionsAsClaimed ==
  [](C24_Inv) /\ [][C24_Step /\ C24_TwiceStep]_vars /\ C24_FlashRemoved

\* C24 (amended): as above, with two presses of the same reaction restoring
\* the previous state when the post had no reaction or that reaction before
\* them; after the other reaction they leave the post without a reaction.
C24_Reactions ==
  [](C24_Inv) /\ [][C24_Step /\ C24_TwiceStepSame]_vars /\ C24_FlashRemoved

\* the second press of reaction 1 on post 1 has brought back the state
\* without a reaction, and its flash message is on display
C24_Witness ==
  /\ pScreen = "Home"
  /\ pToken = "tok"
  /\ lastCall.op = "reaction"
  /\ lastCall.post = 1
  /\ lastCall.reaction = 1
  /\ lastCall.before = 1
  /\ reactionTypeByPost[1] = 0
  /\ reactionFlashByPost[1]
  /\ flashTimers[1] = 2


\* ------------------------------------------------ PollsScreen: votes
\* a signed-in session on PollsScreen; ThemeProvider has finished its load
\* with nothing stored; the storage may hold votes of an earlier installation
InitPolls ==
  /\ UrlIdle
  /\ HookIdle
  /\ FetchIdle
  /\ PostsIdle
  /\ ThemeIdle
  /\ storage \in {[EmptyStorage EXCEPT !["user_poll_votes"] = v] : v \in {"null", "saved"}}
  /\ writtenKeys = {}
  /\ authToken \in Tokens
  /\ user = authToken
  /\ points \in PointsValues
  /\ notifications = <<"read", "unread">>
  /\ unreadCount = UnreadCountOf(notifications)
  /\ authLoading = FALSE
  /\ calls = {}
  /\ opCount = 1
  /\ lastResult = ResultAfterLoads("login", FALSE)
  /\ display = AppNavigatorShows(authToken)
  /\ homeToken = "null"
  /\ homeTokenLoaded = FALSE
  /\ userVotes = NoVotes
  /\ votesLoaded = FALSE
  /\ voteLog = NoVoteLog

NextPolls ==
  \/ LoadSavedVotes
  \/ HandleVote
  \/ ToggleTheme
  \/ SaveThemeEffect
  \/ ColorSchemeChanges

SpecPolls == InitPolls /\ [][NextPolls]_vars

\* C25 (step): a handleVote call sends no request, leaves the storage as it
\* is, sets the sign-in message of type 'error' on the entry of its poll,
\* keeps that entry's optionId and voteId and keeps every other entry.
C25_Step ==
  voteLog'.calls = voteLog.calls + 1 =>
    LET p == voteLog'.poll
    IN /\ voteLog'.requests = voteLog.requests
       /\ storage' = storage
       /\ writtenKeys' = writtenKeys
       /\ userVotes'[p].message = "auth_required"
       /\ userVotes'[p].type = "error"
       /\ userVotes'[p].optionId = userVotes[p].optionId
       /\ userVotes'[p].voteId = userVotes[p].voteId
       /\ \A q \in PollIds \ {p} : userVotes'[q] = userVotes[q]

\* C25: handleVote without an auth token sends no HTTP request and writes
\* nothing to storage; it only sets an error message of type 'error' on the
\* entry of that poll and keeps the entry's optionId and voteId and every
\* other poll's entry.
C25_VoteWithoutToken == [][C25_Step]_vars

\* the saved vote on poll 1 carries the sign-in message and still has its
\* option and vote id; the theme preference was stored in between
C25_Witness ==
  /\ voteLog.calls = 2
  /\ voteLog.requests = 0
  /\ userVotes[1] = [optionId |-> 2, voteId |-> 4, message |-> "auth_required", type |-> "error"]
  /\ userVotes[2] = [NoVote EXCEPT !.message = "auth_required", !.type = "error"]
  /\ storage["user_poll_votes"] = "saved"
  /\ storage["theme_preference"] = "light"


\* ------------------------------------------------ image hook: the candidates
\* C26 (step): in the copies of UserDetailsScreen and DrawerContent, the URL
\* a load failure selects differs from the URL getImageUrl produced for the
\* reference and from every candidate selected before it.
C26_Step ==
  (hCopy \in {"Ranking", "Drawer"} /\ lastOp' = "retry" /\ retryCount' = retryCount + 1) =>
    /\ imageSource' # ResolveFor(hCopy, initialImagePath, isUserAvatar)
    /\ \A i \in 0..(retryCount - 1) :
         imageSource' # RetryUrl(hCopy, initialImagePath, isUserAvatar, i)

\* C26 (as claimed): for one image reference the URLs the retry-cursor hook
\* tries are pairwise distinct: no retry candidate equals the initial URL or
\* an earlier candidate.
C26_DistinctCandidates == [][C26_Step]_vars

====
